---------------------------- MODULE Spec2Model ----------------------------
(***************************************************************************)
(* Model of the em_health import pipeline: the XML value stream            *)
(* (utils/import_xml.py), the metadata upserts and the bulk loader         *)
(* (db_manager.py) and the store connection context (db_client.py).        *)
(*                                                                         *)
(* Text is modelled as a sequence of one-character strings, so that        *)
(* joins, slices and splits are computed character by character.           *)
(***************************************************************************)
EXTENDS Integers, Sequences, FiniteSets, TLC

(***************************************************************************)
(* Text helpers                                                            *)
(***************************************************************************)
Digits == <<"0", "1", "2", "3", "4", "5", "6", "7", "8", "9">>

DigitSet == {Digits[i] : i \in 1..10}

DigitVal(c) == (CHOOSE i \in 1..10 : Digits[i] = c) - 1

IsDigits(s) == \A i \in 1..Len(s) : s[i] \in DigitSet

RECURSIVE DigitsVal(_)
DigitsVal(s) ==
    IF s = <<>> THEN 0
    ELSE 10 * DigitsVal(SubSeq(s, 1, Len(s) - 1)) + DigitVal(s[Len(s)])

RECURSIVE Pow10(_)
Pow10(n) == IF n = 0 THEN 1 ELSE 10 * Pow10(n - 1)

\* n rendered with exactly w digits (n < 10^w)
RECURSIVE Pad(_, _)
Pad(n, w) == IF w = 0 THEN <<>> ELSE Pad(n \div 10, w - 1) \o <<Digits[(n % 10) + 1]>>

(***************************************************************************)
(* Timestamp normalizer: ImportXML.__parse_ts_to_utc                       *)
(*                                                                         *)
(* A timestamp "YYYY-MM-DDTHH:MM:" + tail is the pair of the minute its    *)
(* date, hour and minute fields name (minutes since a base midnight) and   *)
(* the characters of the tail: seconds, fraction, zone suffix.  The slice  *)
(* of line 215 only touches the last three characters, which lie in the    *)
(* tail.                                                                   *)
(***************************************************************************)
MaxFracLen == 7

FracSource == <<"9", "8", "2", "4", "5", "6", "7", "1", "3">>

\* zone suffixes of the export: Z, offset with colon, offset without colon; none
ZoneSuffixes ==
    { [text |-> <<"Z">>, off |-> 0, zoned |-> TRUE],
      [text |-> <<"+", "0", "1", ":", "0", "0">>, off |-> 60, zoned |-> TRUE],
      [text |-> <<"-", "0", "1", ":", "3", "0">>, off |-> -90, zoned |-> TRUE],
      [text |-> <<"+", "0", "1", "0", "0">>, off |-> 60, zoned |-> TRUE],
      [text |-> <<>>, off |-> 0, zoned |-> FALSE] }

Minutes == {1455, 2079}

Seconds == {<<"0", "6">>, <<"3", "6">>}

TsInputs ==
    { [min |-> m, sec |-> s, frac |-> SubSeq(FracSource, 1, n), zone |-> z] :
        m \in Minutes, s \in Seconds, n \in 0..MaxFracLen, z \in ZoneSuffixes }

\* the characters after "YYYY-MM-DDTHH:MM:" of the export's timestamp text
TsTail(t) ==
    t.sec \o (IF t.frac = <<>> THEN <<>> ELSE <<".">> \o t.frac) \o t.zone.text

\* the instant the export's timestamp denotes, in milliseconds
TsInstantMs(t) ==
    (t.min - t.zone.off) * 60000 + DigitsVal(t.sec) * 1000
      + DigitsVal(SubSeq(t.frac \o <<"0", "0", "0">>, 1, 3))

\* ts[:-3] + ts[-2:]
ts_fixed(tail) == SubSeq(tail, 1, Len(tail) - 3) \o SubSeq(tail, Len(tail) - 1, Len(tail))

\* the five formats, in the order of the list: fraction expected, zone directive
time_formats ==
    << [frac |-> TRUE,  zone |-> "Z"],
       [frac |-> FALSE, zone |-> "Z"],
       [frac |-> TRUE,  zone |-> "ZZ"],
       [frac |-> TRUE,  zone |-> "z"],
       [frac |-> FALSE, zone |-> "z"] >>

\* strptime %S: 6[0-1] | [0-5]\d | \d
MatchesS(s) ==
    /\ Len(s) \in 1..2
    /\ IsDigits(s)
    /\ Len(s) = 2 => DigitsVal(s) <= 61

\* strptime %z: [+-]\d\d:?[0-5]\d | Z ; the value is the offset in minutes
MatchesZ(s) ==
    \/ s = <<"Z">>
    \/ /\ Len(s) \in 5..6
       /\ s[1] \in {"+", "-"}
       /\ IsDigits(SubSeq(s, 2, 3))
       /\ Len(s) = 6 => s[4] = ":"
       /\ IsDigits(SubSeq(s, Len(s) - 1, Len(s)))
       /\ DigitVal(s[Len(s) - 1]) <= 5

OffsetOfZ(s) ==
    IF s = <<"Z">> THEN 0
    ELSE (IF s[1] = "-" THEN -1 ELSE 1)
           * (DigitsVal(SubSeq(s, 2, 3)) * 60 + DigitsVal(SubSeq(s, Len(s) - 1, Len(s))))

MatchesZone(fmt, s) ==
    CASE fmt.zone = "Z"  -> s = <<"Z">>
      [] fmt.zone = "ZZ" -> s = <<"Z", "Z">>
      [] OTHER           -> MatchesZ(s)

\* datetime.strptime on the tail: every way the format matches the whole tail
\* (at most one); a literal Z leaves the datetime naive
strptime(tail, fmt) ==
    { [sec   |-> DigitsVal(SubSeq(tail, 1, sl)),
       micro |-> IF fmt.frac
                   THEN DigitsVal(SubSeq(tail, sl + 2, sl + 1 + fl)) * Pow10(6 - fl)
                   ELSE 0,
       aware |-> fmt.zone = "z",
       off   |-> IF fmt.zone = "z"
                   THEN OffsetOfZ(SubSeq(tail, sl + (IF fmt.frac THEN fl + 2 ELSE 1), Len(tail)))
                   ELSE 0] :
      <<sl, fl>> \in
        { p \in (1..2) \X (0..6) :
            /\ p[1] <= Len(tail)
            /\ MatchesS(SubSeq(tail, 1, p[1]))
            /\ IF fmt.frac
                 THEN /\ p[2] >= 1
                      /\ p[1] + 1 + p[2] <= Len(tail)
                      /\ tail[p[1] + 1] = "."
                      /\ IsDigits(SubSeq(tail, p[1] + 2, p[1] + 1 + p[2]))
                      /\ MatchesZone(fmt, SubSeq(tail, p[1] + 2 + p[2], Len(tail)))
                 ELSE /\ p[2] = 0
                      /\ MatchesZone(fmt, SubSeq(tail, p[1] + 1, Len(tail))) } }

\* dt_local.astimezone(timezone.utc): a naive datetime is read as local time
astimezone_utc(min, dt, localOff) == min - (IF dt.aware THEN dt.off ELSE localOff)

\* strftime("%Y-%m-%d %H:%M:%S.%f%z")[:-3], the tail after "YYYY-MM-DD HH:MM:"
strftime_cut(dt) ==
    LET full == Pad(dt.sec, 2) \o <<".">> \o Pad(dt.micro, 6) \o <<"+", "0", "0", "0", "0">>
    IN  SubSeq(full, 1, Len(full) - 3)

\* raise ValueError(f"Unsupported time format: {ts}")
TsError == [ok |-> FALSE, min |-> 0, tail |-> <<>>]

RECURSIVE try_formats(_, _, _, _)
try_formats(min, fixed, localOff, i) ==
    IF i > Len(time_formats) THEN TsError
    ELSE LET hits == strptime(fixed, time_formats[i])
         IN  IF hits = {} THEN try_formats(min, fixed, localOff, i + 1)
             ELSE LET dt == CHOOSE d \in hits : TRUE
                  IN  [ok |-> TRUE, min |-> astimezone_utc(min, dt, localOff),
                       tail |-> strftime_cut(dt)]

parse_ts_to_utc(t, localOff) == try_formats(t.min, ts_fixed(TsTail(t)), localOff, 1)

\* the instant the store reads from "YYYY-MM-DD HH:MM:SS.ffffff+H", in milliseconds
OutInstantMs(o) ==
    LET sec  == DigitsVal(SubSeq(o.tail, 1, 2))
        sign == CHOOSE i \in 1..Len(o.tail) : o.tail[i] \in {"+", "-"}
        frac == SubSeq(o.tail, 4, sign - 1)
        hrs  == DigitsVal(SubSeq(o.tail, sign + 1, Len(o.tail)))
        off  == (IF o.tail[sign] = "-" THEN -60 ELSE 60) * hrs
    IN  (o.min - off) * 60000 + sec * 1000 + DigitsVal(SubSeq(frac \o <<"0", "0", "0">>, 1, 3))

(***************************************************************************)
(* Value encoder: ImportXML.__convert_value                                *)
(*                                                                         *)
(* The text of a <Value> element is a non-empty character sequence, or     *)
(* None when the element is empty; None is written <<>> here.              *)
(***************************************************************************)
None == <<>>

NULL == <<"\\", "N">>

\* str(value)
str(value) == IF value = None THEN <<"N", "o", "n", "e">> ELSE value

RECURSIVE lstrip(_)
lstrip(s) == IF s # <<>> /\ s[1] = " " THEN lstrip(Tail(s)) ELSE s

RECURSIVE rstrip(_)
rstrip(s) == IF s # <<>> /\ s[Len(s)] = " " THEN rstrip(SubSeq(s, 1, Len(s) - 1)) ELSE s

Unsigned(s) == IF s # <<>> /\ s[1] \in {"+", "-"} THEN Tail(s) ELSE s

\* int(value) accepts blanks around an optional sign and decimal digits
IsIntText(value) ==
    LET d == Unsigned(rstrip(lstrip(value)))
    IN  value # None /\ d # <<>> /\ IsDigits(d)

RECURSIVE NatText(_)
NatText(n) == IF n < 10 THEN <<Digits[n + 1]>> ELSE NatText(n \div 10) \o <<Digits[(n % 10) + 1]>>

\* str(int(value))
str_int(value) ==
    LET t == rstrip(lstrip(value))
        n == DigitsVal(Unsigned(t))
    IN  (IF t[1] = "-" /\ n # 0 THEN <<"-">> ELSE <<>>) \o NatText(n)

ConvertError == [ok |-> FALSE, num |-> <<>>, text |-> <<>>]

convert_value(value, value_type) ==
    CASE value_type = "str"   -> [ok |-> TRUE, num |-> NULL, text |-> str(value)]
      [] value_type = "float" -> [ok |-> TRUE, num |-> str(value), text |-> NULL]
      [] value_type = "int"   -> IF IsIntText(value)
                                   THEN [ok |-> TRUE, num |-> str_int(value), text |-> NULL]
                                   ELSE ConvertError
      [] OTHER                -> ConvertError

(***************************************************************************)
(* Rows and the wire text                                                  *)
(***************************************************************************)
\* "\t".join(cols)
RECURSIVE JoinTab(_)
JoinTab(cols) ==
    IF cols = <<>> THEN <<>>
    ELSE IF Len(cols) = 1 THEN cols[1]
    ELSE cols[1] \o <<"\t">> \o JoinTab(Tail(cols))

RECURSIVE Concat(_)
Concat(ss) == IF ss = <<>> THEN <<>> ELSE ss[1] \o Concat(Tail(ss))

\* the text "YYYY-MM-DD HH:MM:" of a minute, kept as one token of 17 bytes
MinuteText(min) == ToString(min)

MinuteTokens == {MinuteText(m - o) : m \in Minutes, o \in {-90, 0, 60}}

\* len(c.encode("utf-8"))
Utf8Len(c) == IF c \in MinuteTokens THEN 17 ELSE IF c = "e'" THEN 2 ELSE 1

RECURSIVE ByteLen(_)
ByteLen(s) == IF s = <<>> THEN 0 ELSE Utf8Len(s[1]) + ByteLen(Tail(s))

\* the timestamp text the normalizer returns
TimeText(o) == <<MinuteText(o.min)>> \o o.tail

(***************************************************************************)
(* The export document and the shared iterparse cursor                     *)
(*                                                                         *)
(* The cursor delivers the end events of the Enumerations section, of the  *)
(* Instruments section and of the ValueData blocks, in document order.  A  *)
(* ValueData block is given by its ParameterValue entries, each carrying   *)
(* the ParameterID of its block.                                           *)
(***************************************************************************)
MaxEntries == 2

ColonZone == [text |-> <<"+", "0", "1", ":", "0", "0">>, off |-> 60, zoned |-> TRUE]

PlainZone == [text |-> <<"+", "0", "1", "0", "0">>, off |-> 60, zoned |-> TRUE]

TsA == [min |-> 2079, sec |-> <<"3", "6">>, frac |-> <<"9", "8", "2">>, zone |-> ColonZone]

TsB == [min |-> 2079, sec |-> <<"0", "6">>, frac |-> <<"9", "8", "2">>, zone |-> ColonZone]

\* an encoding no format of the normalizer parses
TsBad == [min |-> 2079, sec |-> <<"3", "6">>, frac |-> <<"9", "8", "2">>, zone |-> PlainZone]

ValueData(pid, ts, val) == [tag |-> "ValueData", pid |-> pid, ts |-> ts, val |-> val]

\* the value entries a document is built from: parameter 1 is Int, 2 is
\* String, 3 is Float, and 9 is declared by no Parameter element
EntryPool ==
    { ValueData(1, TsA, <<"7">>),
      ValueData(1, TsBad, <<"7">>),
      ValueData(1, TsA, <<"x">>),
      ValueData(2, TsA, <<"o", "k">>),
      ValueData(2, TsA, <<"a", "\t", "b">>),
      ValueData(2, TsB, <<"a", "\n", "b">>),
      ValueData(2, TsB, <<"\\", "N">>),
      ValueData(3, TsA, <<"1", ".", "5">>),
      ValueData(3, TsB, <<"x">>),
      ValueData(9, TsA, <<"7">>) }

RECURSIVE SeqsUpTo(_, _)
SeqsUpTo(S, n) ==
    IF n = 0 THEN {<<>>}
    ELSE LET shorter == SeqsUpTo(S, n - 1)
         IN  shorter \cup {Append(q, x) : q \in {r \in shorter : Len(r) = n - 1}, x \in S}

FegState == [name |-> "FegState_enum", literals |-> <<[name |-> "Operate", value |-> 4]>>]

\* param.get("EnumerationName", None) of a Parameter without the attribute
NoEnum == "-"

\* the Parameter elements of the first Instrument: ID, Type, EnumerationName
DocParams ==
    << [id |-> 1, type |-> "Int", enum |-> "FegState_enum"],
       [id |-> 2, type |-> "String", enum |-> NoEnum],
       [id |-> 3, type |-> "Float", enum |-> NoEnum] >>

Documents ==
    { [enums |-> m[1], params |-> m[2], values |-> v] :
        m \in {<<<<>>, <<>>>>, <<<<FegState>>, DocParams>>},
        v \in SeqsUpTo(EntryPool, MaxEntries) }

Events(d) == <<[tag |-> "Enumerations"], [tag |-> "Instruments"]>> \o d.values

\* for event, elem in self.context: the index of the next event with this
\* tag after pos, or past the end when the loop runs dry
RECURSIVE NextTagged(_, _, _)
NextTagged(events, pos, tag) ==
    IF pos >= Len(events) THEN Len(events) + 1
    ELSE IF events[pos + 1].tag = tag THEN pos + 1
    ELSE NextTagged(events, pos + 1, tag)

known_types(t) ==
    CASE t = "Int" -> "int" [] t = "Float" -> "float" [] t = "String" -> "str"

\* self.enumerations after parse_enumerations found the section
EnumsOf(d) == d.enums

\* self.params after parse_parameters found the section: ID -> type, enum
ParamsOf(d) ==
    [id \in {d.params[i].id : i \in 1..Len(d.params)} |->
       LET p == d.params[CHOOSE i \in 1..Len(d.params) : d.params[i].id = id]
       IN  [type |-> known_types(p.type), enum |-> p.enum]]

NoParams == [id \in {} |-> 0]

(***************************************************************************)
(* Value stream generator: ImportXML.parse_values                          *)
(***************************************************************************)
Row(ts, instr_id, param_id, cv) ==
    <<TimeText(ts), NatText(instr_id), NatText(param_id), cv.num, cv.text>>

\* if param_dict is None: ... continue
IsSkipped(params_dict, param_id) == param_id \notin DOMAIN params_dict

\* a variant of the generator that ends at the first undeclared parameter
parse_values_stops(events, pos, params_dict, instr_id, localOff) ==
    LET k == NextTagged(events, pos, "ValueData")
    IN  IF k > Len(events) \/ IsSkipped(params_dict, events[k].pid)
          THEN [kind |-> "stop", pos |-> Len(events), row |-> [row |-> <<>>, event |-> 0]]
        ELSE LET ts == parse_ts_to_utc(events[k].ts, localOff)
                 cv == convert_value(events[k].val, params_dict[events[k].pid].type)
             IN  IF ts.ok /\ cv.ok
                   THEN [kind |-> "yield", pos |-> k,
                         row |-> [row |-> Row(ts, instr_id, events[k].pid, cv), event |-> k]]
                   ELSE [kind |-> "raise", pos |-> k, row |-> [row |-> <<>>, event |-> 0]]

\* one resumption of the generator from cursor position pos: the next row
\* yielded, StopIteration, or the ValueError of an entry
RECURSIVE parse_values_next(_, _, _, _, _)
parse_values_next(events, pos, params_dict, instr_id, localOff) ==
    LET k == NextTagged(events, pos, "ValueData")
    IN  IF k > Len(events)
          THEN [kind |-> "stop", pos |-> Len(events), row |-> [row |-> <<>>, event |-> 0]]
        ELSE IF IsSkipped(params_dict, events[k].pid)
          THEN parse_values_next(events, k, params_dict, instr_id, localOff)
        ELSE LET ts == parse_ts_to_utc(events[k].ts, localOff)
                 cv == convert_value(events[k].val, params_dict[events[k].pid].type)
             IN  IF ts.ok /\ cv.ok
                   THEN [kind |-> "yield", pos |-> k,
                         row |-> [row |-> Row(ts, instr_id, events[k].pid, cv), event |-> k]]
                   ELSE [kind |-> "raise", pos |-> k, row |-> [row |-> <<>>, event |-> 0]]

\* list(parse_values(...)): every row up to StopIteration, or the error
RECURSIVE list_rows(_, _, _, _, _, _)
list_rows(events, pos, params_dict, instr_id, localOff, acc) ==
    LET g == parse_values_next(events, pos, params_dict, instr_id, localOff)
    IN  IF g.kind = "yield"
          THEN list_rows(events, g.pos, params_dict, instr_id, localOff, Append(acc, g.row))
          ELSE [kind |-> g.kind, pos |-> g.pos, rows |-> acc]

(***************************************************************************)
(* Bulk loader, streaming mode: DatabaseManager.write_data.stream_chunks   *)
(***************************************************************************)
\* newrow = "\t".join(col for col in row) + "\n"
newrow(row) == JoinTab(row) \o <<"\n">>

\* a variant of the turn that flushes on every second buffered row
stream_chunks_by_count(buffer, size, row, max_size) ==
    LET line == newrow(row)
        buf  == Append(buffer, line)
    IN  IF Len(buf) >= 2
          THEN [buffer |-> <<>>, size |-> 0, chunk |-> <<Concat(buf)>>]
          ELSE [buffer |-> buf, size |-> size + ByteLen(line), chunk |-> <<>>]

\* one turn of the for loop: the buffer and size left behind, and the chunk
\* yielded in this turn (<<>> when the turn yields none)
stream_chunks_turn(buffer, size, row, max_size) ==
    LET line == newrow(row)
        sz   == size + ByteLen(line)
        buf  == Append(buffer, line)
    IN  IF sz >= max_size
          THEN [buffer |-> <<>>, size |-> 0, chunk |-> <<Concat(buf)>>]
          ELSE [buffer |-> buf, size |-> sz, chunk |-> <<>>]

\* if buffer: yield ''.join(buffer)
stream_chunks_rest(buffer) == IF buffer # <<>> THEN <<Concat(buffer)>> ELSE <<>>

(***************************************************************************)
(* The store: the statements the loader and the upserts send               *)
(*                                                                         *)
(* COPY ... FROM STDIN WITH (FORMAT text) reads lines ended by a newline,  *)
(* columns separated by a tab; a backslash takes the next character        *)
(* literally and the column \N is NULL.                                    *)
(***************************************************************************)
SqlNull == <<"NULL">>

\* the pieces of s between the separators that no backslash precedes
RECURSIVE SplitEsc(_, _, _, _, _)
SplitEsc(s, sep, i, piece, out) ==
    IF i > Len(s) THEN (IF piece = <<>> /\ sep = "\n" THEN out ELSE Append(out, piece))
    ELSE IF s[i] = "\\" /\ i < Len(s)
      THEN SplitEsc(s, sep, i + 2, piece \o <<s[i], s[i + 1]>>, out)
    ELSE IF s[i] = sep THEN SplitEsc(s, sep, i + 1, <<>>, Append(out, piece))
    ELSE SplitEsc(s, sep, i + 1, Append(piece, s[i]), out)

CopyLines(stream) == SplitEsc(stream, "\n", 1, <<>>, <<>>)

RECURSIVE Unescape(_)
Unescape(raw) ==
    IF raw = <<>> THEN <<>>
    ELSE IF raw[1] = "\\" /\ Len(raw) > 1 THEN <<raw[2]>> \o Unescape(SubSeq(raw, 3, Len(raw)))
    ELSE <<raw[1]>> \o Unescape(Tail(raw))

CopyColumns(line) ==
    LET raw == SplitEsc(line, "\t", 1, <<>>, <<>>)
    IN  [i \in 1..Len(raw) |-> IF raw[i] = NULL THEN SqlNull ELSE Unescape(raw[i])]

\* input syntax of a double precision column: sign, digits, fraction
IsFloatText(s) ==
    LET u == Unsigned(s)
        dots == {i \in 1..Len(u) : u[i] = "."}
    IN  /\ u # <<>>
        /\ u[1] \in DigitSet
        /\ Cardinality(dots) <= 1
        /\ \A i \in 1..Len(u) : u[i] \in DigitSet \cup {"."}

\* a line the data table takes: five columns, each of its column's type
IsDataLine(cols) ==
    /\ Len(cols) = 5
    /\ cols[1] # SqlNull /\ cols[1] # <<>> /\ cols[1][1] \in MinuteTokens
    /\ cols[2] # SqlNull /\ cols[2] # <<>> /\ IsDigits(cols[2])
    /\ cols[3] # SqlNull /\ cols[3] # <<>> /\ IsDigits(cols[3])
    /\ cols[4] = SqlNull \/ IsFloatText(cols[4])

DataRow(cols, load) ==
    [time |-> cols[1], instrument_id |-> cols[2], param_id |-> cols[3],
     value_num |-> cols[4], value_text |-> cols[5], load |-> load]

\* the uniqueness key of the data table
DataKey(r) == <<r.time, r.instrument_id, r.param_id>>

HasKey(table, key) == \E i \in 1..Len(table) : DataKey(table[i]) = key

\* the COPY statement applied line by line: the table it leaves, or the
\* first error it meets and the rows the aborted statement had taken
RECURSIVE copy_apply(_, _, _)
copy_apply(lines, table, load) ==
    IF lines = <<>> THEN [error |-> "none", table |-> table]
    ELSE LET cols == CopyColumns(lines[1])
         IN  IF ~IsDataLine(cols) THEN [error |-> "DataError", table |-> table]
             ELSE IF HasKey(table, DataKey(DataRow(cols, load)))
               THEN [error |-> "UniqueViolation", table |-> table]
             ELSE copy_apply(Tail(lines), Append(table, DataRow(cols, load)), load)

\* a bound parameter: the NULL sentinel of a row stands for SQL NULL
Param(col) == IF col = NULL THEN SqlNull ELSE col

\* a variant of the insert without its ON CONFLICT clause
InsertsAlways(table, key) == TRUE

\* ON CONFLICT DO NOTHING: whether the insert goes ahead on this key
InsertsOnConflict(table, key) == ~HasKey(table, key)

\* a variant of the fallback insert that stops after its first row
insert_ignore_first(rows, table, load) ==
    IF rows = <<>> THEN [error |-> "none", table |-> table]
    ELSE LET cols == [i \in 1..5 |-> Param(rows[1][i])]
         IN  IF ~IsDataLine(cols) THEN [error |-> "DataError", table |-> table]
             ELSE [error |-> "none",
                   table |-> IF InsertsOnConflict(table, DataKey(DataRow(cols, load)))
                               THEN Append(table, DataRow(cols, load)) ELSE table]

\* executemany of INSERT ... VALUES (%s, %s, %s, %s, %s) ON CONFLICT DO NOTHING
RECURSIVE insert_ignore(_, _, _)
insert_ignore(rows, table, load) ==
    IF rows = <<>> THEN [error |-> "none", table |-> table]
    ELSE LET cols == [i \in 1..5 |-> Param(rows[1][i])]
             r    == DataRow(cols, load)
         IN  IF ~IsDataLine(cols) THEN [error |-> "DataError", table |-> table]
             ELSE insert_ignore(Tail(rows),
                                IF InsertsOnConflict(table, DataKey(r))
                                  THEN Append(table, r) ELSE table,
                                load)

(***************************************************************************)
(* Metadata tables                                                         *)
(***************************************************************************)
\* the uniqueness keys the tables declare
EnumTypesKey == <<"instrument_id", "name">>

EnumValuesKey == <<"enum_id", "member_name">>

ParametersKey == <<"instrument_id", "param_id">>

KeyOf(r, key) == [i \in 1..Len(key) |-> r[key[i]]]

Conflicts(table, r, key) == \E i \in 1..Len(table) : KeyOf(table[i], key) = KeyOf(r, key)

\* the next value of a serial id column
NextId(table) == Len(table) + 1

\* executemany of a plain INSERT: the table left, or UniqueViolation
RECURSIVE insert_plain(_, _, _)
insert_plain(rows, table, key) ==
    IF rows = <<>> THEN [error |-> "none", table |-> table]
    ELSE IF Conflicts(table, rows[1], key) THEN [error |-> "UniqueViolation", table |-> table]
    ELSE insert_plain(Tail(rows), Append(table, rows[1]), key)

\* executemany of INSERT INTO enum_types ... ON CONFLICT DO NOTHING
RECURSIVE insert_enum_types(_, _, _)
insert_enum_types(names, instrument_id, table) ==
    IF names = <<>> THEN table
    ELSE LET r == [id |-> NextId(table), instrument_id |-> instrument_id, name |-> names[1]]
         IN  insert_enum_types(Tail(names), instrument_id,
                               IF Conflicts(table, r, EnumTypesKey) THEN table
                               ELSE Append(table, r))

\* the settings.json entry of the microscope
Microscope ==
    [instrument |-> "9999, Test Instrument", serial |-> 9999, model |-> "Test instrument",
     name |-> "Test", type |-> "tem", template |-> "krios", server |-> "127.0.0.1"]

\* add_instrument: the id of the stored instrument, inserted when absent
add_instrument(table, m) ==
    LET s == {i \in 1..Len(table) :
                table[i].instrument = m.instrument \/ table[i].serial = m.serial}
    IN  IF s = {}
          THEN [id |-> NextId(table),
                table |-> Append(table,
                   [id |-> NextId(table), instrument |-> m.instrument, serial |-> m.serial,
                    model |-> m.model, name |-> m.name, template |-> m.template,
                    server |-> m.server])]
          ELSE [id |-> table[CHOOSE i \in s : \A j \in s : i <= j].id, table |-> table]

\* enum_name_to_id = {name: eid for eid, name in rows}
enum_name_to_id(enum_types, instrument_id) ==
    [n \in {enum_types[i].name : i \in {j \in 1..Len(enum_types) :
                                          enum_types[j].instrument_id = instrument_id}} |->
       enum_types[CHOOSE i \in 1..Len(enum_types) :
                    enum_types[i].instrument_id = instrument_id /\ enum_types[i].name = n].id]

\* the (enum_id, member_name, value) tuples of the second executemany
RECURSIVE enum_value_rows(_, _)
enum_value_rows(enums, ids) ==
    IF enums = <<>> THEN <<>>
    ELSE [i \in 1..Len(enums[1].literals) |->
            [enum_id |-> ids[enums[1].name],
             member_name |-> enums[1].literals[i].name,
             value |-> enums[1].literals[i].value]]
         \o enum_value_rows(Tail(enums), ids)

\* add_enumerations, up to its commit
add_enumerations(t, instrument_id, enums) ==
    LET types == insert_enum_types([i \in 1..Len(enums) |-> enums[i].name],
                                   instrument_id, t.enum_types)
        ids   == enum_name_to_id(types, instrument_id)
        vals  == insert_plain(enum_value_rows(enums, ids), t.enum_values, EnumValuesKey)
    IN  [error |-> vals.error, ids |-> ids,
         tables |-> [t EXCEPT !.enum_types = types, !.enum_values = vals.table]]

RECURSIVE Ascending(_)
Ascending(S) ==
    IF S = {} THEN <<>>
    ELSE LET m == CHOOSE x \in S : \A y \in S : x <= y
         IN  <<m>> \o Ascending(S \ {m})

\* data_to_insert of add_parameters
param_rows(instrument_id, params_dict, enums_ids) ==
    LET ids == Ascending(DOMAIN params_dict)
    IN  [i \in 1..Len(ids) |->
           LET en == params_dict[ids[i]].enum
           IN  [instrument_id |-> instrument_id, param_id |-> ids[i],
                enum_id |-> IF en # NoEnum /\ en \in DOMAIN enums_ids THEN enums_ids[en] ELSE 0,
                value_type |-> params_dict[ids[i]].type]]

\* a variant of add_parameters that stores nothing
add_parameters_lost(t, instrument_id, params_dict, enums_ids) ==
    [error |-> "none", tables |-> t]

\* add_parameters, up to its commit
add_parameters(t, instrument_id, params_dict, enums_ids) ==
    LET ins == insert_plain(param_rows(instrument_id, params_dict, enums_ids),
                            t.parameters, ParametersKey)
    IN  [error |-> ins.error, tables |-> [t EXCEPT !.parameters = ins.table]]

EmptyStore ==
    [instruments |-> <<>>, enum_types |-> <<>>, enum_values |-> <<>>,
     parameters |-> <<>>, data |-> <<>>]

(***************************************************************************)
(* The calls each operation makes on the store connection, in order        *)
(***************************************************************************)
\* add_instrument: one run_query
add_instrument_calls == <<"run_query">>

\* add_enumerations: executemany, run_query (the ids), executemany, run_query
\* (the count), commit; the second executemany is where it can raise
add_enumerations_calls(error) ==
    IF error = "none"
      THEN <<"executemany", "run_query", "executemany", "run_query", "commit">>
      ELSE <<"executemany", "run_query", "executemany">>

\* add_parameters: executemany, run_query (the count), commit
add_parameters_calls(error) ==
    IF error = "none" THEN <<"executemany", "run_query", "commit">> ELSE <<"executemany">>

\* write_data, nocopy branch: executemany, commit
nocopy_calls(error) ==
    IF error = "none" THEN <<"executemany", "commit">> ELSE <<"executemany">>

\* a variant of the copy loop whose row source queries the store
copy_turn_queries(chunk) == <<"run_query">> \o [i \in 1..Len(chunk) |-> "copy.write"]

\* one turn of "for chunk in stream_chunks(rows, chunk_size): copy.write(chunk)":
\* drawing the row makes no call, a chunk that is due is written
copy_turn_calls(chunk) == [i \in 1..Len(chunk) |-> "copy.write"]

\* DatabaseClient.write_data after its batches: commit, then the count
client_end_calls == <<"commit", "execute">>

\* __exit__: rollback or commit, then close
exit_calls(exc_type) == <<IF exc_type # "none" THEN "rollback" ELSE "commit", "close">>


(***************************************************************************)
(* State                                                                   *)
(***************************************************************************)
VARIABLES
    tsIn, tsOut, tsPc,       \* the normalizer called on its own
    tz,                      \* offset of the host's local zone, minutes
    argv,                    \* the files main was called on
    stmts,                   \* the calls made on the store connection since it was opened
    doc,                     \* the export document being imported
    chunk_size,              \* WRITE_DATA_CHUNK_SIZE
    run, flow, pc,           \* the import under way and its position
    pos,                     \* events the iterparse cursor has delivered
    enumerations, params,    \* ImportXML.enumerations, ImportXML.params
    db, tx,                  \* committed tables; tables as the connection sees them
    exc, failed,             \* the exception propagating ("none" when none), the call that raised it
    instrument_id, enums_ids,
    listed,                  \* list(parse_values(...)) of the test
    nocopy,                  \* the nocopy argument of the latest write_data call
    buffer, size, chunks,    \* stream_chunks' locals; chunks written to the copy
    load, calls,             \* write_data calls so far; calls of this import
    yielded,                 \* rows parse_values yielded in this import, with their event
    received,                \* rows write_data has read in this import
    params_committed,        \* add_parameters of this import has committed
    history,                 \* the imports that ended, in order
    last_size, unchanged_time,   \* locals of FileWatcher.wait_until_complete
    futures,                 \* the tasks run_all_tasks submitted to its pool
    current_ver, latest_ver  \* migrate_db: the stored schema version, the target

tsVars == <<tsIn, tsOut, tsPc>>

plVars ==
    <<argv, stmts, doc, chunk_size, run, flow, pc, pos, enumerations, params, db, tx, exc, failed,
      instrument_id, enums_ids, listed, nocopy, buffer, size, chunks, load, calls,
      yielded, received, params_committed, history>>

sideVars == <<last_size, unchanged_time, futures, current_ver, latest_ver>>

vars == <<tsVars, tz, plVars, sideVars>>

\* the offsets of the local zone of the importing host, in minutes
LocalOffsets == {0, 60}

MaxRuns == 2

MaxCalls == 2

SmallChunk == 64

ChunkSizes == {1, SmallChunk}

\* main has not been called
NoArgs ==
    [settings |-> [path |-> <<>>, exists |-> FALSE, text |-> <<>>],
     input    |-> [path |-> <<>>, exists |-> FALSE, bytes |-> "xml"]]

NoDocument == [enums |-> <<>>, params |-> <<>>, values |-> <<>>]

TsIdle ==
    /\ tsIn = TsA
    /\ tsOut = TsError
    /\ tsPc = "idle"

PlStateOn(d, cs, p, store) ==
    /\ last_size = -1
    /\ unchanged_time = 0
    /\ futures = <<>>
    /\ current_ver = 0
    /\ latest_ver = 0
    /\ argv = NoArgs
    /\ stmts = <<>>
    /\ doc = d
    /\ chunk_size = cs
    /\ run = 1
    /\ flow = "main"
    /\ pc = p
    /\ pos = 0
    /\ enumerations = <<>>
    /\ params = NoParams
    /\ db = store
    /\ tx = store
    /\ exc = "none"
    /\ failed = "none"
    /\ instrument_id = 0
    /\ enums_ids = NoParams
    /\ listed = <<>>
    /\ nocopy = FALSE
    /\ buffer = <<>>
    /\ size = 0
    /\ chunks = <<>>
    /\ load = 0
    /\ calls = 0
    /\ yielded = <<>>
    /\ received = 0
    /\ params_committed = FALSE
    /\ history = <<>>

PlState(d, cs, p) == PlStateOn(d, cs, p, EmptyStore)

(***************************************************************************)
(* The normalizer on its own                                               *)
(***************************************************************************)
TsInit ==
    /\ tsIn \in TsInputs
    /\ tz \in LocalOffsets
    /\ tsOut = TsError
    /\ tsPc = "call"
    /\ PlState(NoDocument, 1, "idle")

Normalize ==
    /\ tsPc = "call"
    /\ tsOut' = parse_ts_to_utc(tsIn, tz)
    /\ tsPc' = "returned"
    /\ UNCHANGED <<tsIn, tz, sideVars, plVars>>

TsNext == Normalize

SpecTs == TsInit /\ [][TsNext]_vars

(***************************************************************************)
(* The import: import_xml.main and the test's import                       *)
(***************************************************************************)
\* every timestamp of the entry pool carries its offset, so the host's zone,
\* which only a naive datetime reads, is left at UTC here
Init ==
    /\ TsIdle
    /\ tz = 0
    /\ \E d \in Documents : PlState(d, SmallChunk, "new")

\* ImportXML.parse_enumerations
parse_enumerations ==
    /\ pc = "new"
    /\ LET k == NextTagged(Events(doc), pos, "Enumerations")
       IN  IF k <= Len(Events(doc))
             THEN pos' = k /\ enumerations' = EnumsOf(doc)
             ELSE pos' = Len(Events(doc)) /\ UNCHANGED enumerations
    /\ pc' = "enums_parsed"
    /\ UNCHANGED <<tsVars, sideVars, tz, argv, stmts, doc, chunk_size, run, flow, params, db, tx, exc, failed,
                   instrument_id, enums_ids, listed, nocopy, buffer, size, chunks,
                   load, calls, yielded, received, params_committed, history>>

\* ImportXML.parse_parameters
parse_parameters ==
    /\ pc = "enums_parsed"
    /\ LET k == NextTagged(Events(doc), pos, "Instruments")
       IN  IF k <= Len(Events(doc))
             THEN pos' = k /\ params' = ParamsOf(doc)
             ELSE pos' = Len(Events(doc)) /\ UNCHANGED params
    /\ pc' = "params_parsed"
    /\ UNCHANGED <<tsVars, sideVars, tz, argv, stmts, doc, chunk_size, run, flow, enumerations, db, tx, exc,
                   failed, instrument_id, enums_ids, listed, nocopy, buffer, size,
                   chunks, load, calls, yielded, received, params_committed, history>>

\* with DatabaseManager(...) as dc: entered by main, or by the test
db_enter ==
    /\ pc = "params_parsed"
    /\ flow' \in {"main", "test"}
    /\ tx' = db
    /\ pc' = "connected"
    /\ stmts' = <<>>
    /\ UNCHANGED <<tsVars, sideVars, tz, argv, doc, chunk_size, run, pos, enumerations, params, db, exc,
                   failed, instrument_id, enums_ids, listed, nocopy, buffer, size,
                   chunks, load, calls, yielded, received, params_committed, history>>

\* dc.add_instrument(instr_dict)
do_add_instrument ==
    /\ pc = "connected"
    /\ LET r == add_instrument(tx.instruments, Microscope)
       IN  /\ instrument_id' = r.id
           /\ tx' = [tx EXCEPT !.instruments = r.table]
    /\ pc' = "instrument_added"
    /\ stmts' = stmts \o add_instrument_calls
    /\ UNCHANGED <<tsVars, sideVars, tz, argv, doc, chunk_size, run, flow, pos, enumerations, params, db,
                   exc, failed, enums_ids, listed, nocopy, buffer, size, chunks, load,
                   calls, yielded, received, params_committed, history>>

\* dc.add_enumerations(instrument_id, xmlparser.enumerations)
do_add_enumerations ==
    /\ pc = "instrument_added"
    /\ LET r == add_enumerations(tx, instrument_id, enumerations)
       IN  IF r.error = "none"
             THEN /\ tx' = r.tables
                  /\ db' = r.tables
                  /\ enums_ids' = r.ids
                  /\ pc' = "enums_added"
                  /\ UNCHANGED <<exc, failed>>
             ELSE /\ exc' = r.error
                  /\ failed' = "add_enumerations"
                  /\ pc' = "raised"
                  /\ UNCHANGED <<tx, db, enums_ids>>
    /\ stmts' = stmts \o add_enumerations_calls(add_enumerations(tx, instrument_id, enumerations).error)
    /\ UNCHANGED <<tsVars, sideVars, tz, argv, doc, chunk_size, run, flow, pos, enumerations, params,
                   instrument_id, listed, nocopy, buffer, size, chunks, load, calls,
                   yielded, received, params_committed, history>>

\* dc.add_parameters(instrument_id, xmlparser.params, enums_dict)
do_add_parameters ==
    /\ pc = "enums_added"
    /\ LET r == add_parameters(tx, instrument_id, params, enums_ids)
       IN  IF r.error = "none"
             THEN /\ tx' = r.tables
                  /\ db' = r.tables
                  /\ params_committed' = TRUE
                  /\ pc' = "params_added"
                  /\ UNCHANGED <<exc, failed>>
             ELSE /\ exc' = r.error
                  /\ failed' = "add_parameters"
                  /\ pc' = "raised"
                  /\ UNCHANGED <<tx, db, params_committed>>
    /\ stmts' = stmts \o add_parameters_calls(add_parameters(tx, instrument_id, params, enums_ids).error)
    /\ UNCHANGED <<tsVars, sideVars, tz, argv, doc, chunk_size, run, flow, pos, enumerations, params,
                   instrument_id, enums_ids, listed, nocopy, buffer, size, chunks,
                   load, calls, yielded, received, history>>

\* main: datapoints = xmlparser.parse_values(...); dc.write_data(datapoints)
\* enters write_data in its default mode, reads WRITE_DATA_CHUNK_SIZE from
\* the environment and opens the copy
write_data_stream ==
    /\ pc = "params_added"
    /\ flow = "main"
    /\ nocopy' = FALSE
    /\ chunk_size' \in ChunkSizes
    /\ load' = load + 1
    /\ calls' = calls + 1
    /\ buffer' = <<>>
    /\ size' = 0
    /\ chunks' = <<>>
    /\ pc' = "copying"
    /\ stmts' = Append(stmts, "copy")
    /\ UNCHANGED <<tsVars, sideVars, tz, argv, doc, run, flow, pos, enumerations, params, db,
                   tx, exc, failed, instrument_id, enums_ids, listed, yielded, received,
                   params_committed, history>>

\* the test: datapoints = list(parser.parse_values(...))
list_values ==
    /\ pc = "params_added"
    /\ flow = "test"
    /\ LET g == list_rows(Events(doc), pos, params, instrument_id, tz, <<>>)
       IN  /\ pos' = g.pos
           /\ yielded' = g.rows
           /\ IF g.kind = "raise"
                THEN /\ exc' = "ValueError"
                     /\ failed' = "parse_values"
                     /\ pc' = "raised"
                     /\ UNCHANGED listed
                ELSE /\ listed' = [i \in 1..Len(g.rows) |-> g.rows[i].row]
                     /\ pc' = "listed"
                     /\ UNCHANGED <<exc, failed>>
    /\ UNCHANGED <<tsVars, sideVars, tz, argv, stmts, doc, chunk_size, run, flow, enumerations, params, db, tx,
                   instrument_id, enums_ids, nocopy, buffer, size, chunks, load,
                   calls, received, params_committed, history>>

\* write_data(rows, nocopy=True) on a list: executemany, then commit
write_data_nocopy ==
    /\ pc \in {"listed", "loaded"}
    /\ flow = "test"
    /\ calls < MaxCalls
    /\ nocopy' = TRUE
    /\ load' = load + 1
    /\ calls' = calls + 1
    /\ received' = received + Len(listed)
    /\ LET r == insert_ignore(listed, tx.data, load + 1)
       IN  /\ tx' = [tx EXCEPT !.data = r.table]
           /\ IF r.error = "none"
                THEN /\ db' = tx'
                     /\ pc' = "loaded"
                     /\ UNCHANGED <<exc, failed>>
                ELSE /\ exc' = r.error
                     /\ failed' = "write_data"
                     /\ pc' = "raised"
                     /\ UNCHANGED db
    /\ stmts' = stmts \o nocopy_calls(insert_ignore(listed, tx.data, load + 1).error)
    /\ UNCHANGED <<tsVars, sideVars, tz, argv, doc, chunk_size, run, flow, pos, enumerations, params,
                   instrument_id, enums_ids, listed, buffer, size, chunks,
                   yielded, params_committed, history>>

\* what the running stream_chunks draws from its rows next
NextOfRows == parse_values_next(Events(doc), pos, params, instrument_id, tz)

\* except psycopg.errors.UniqueViolation: log, then raise
reraise(error) == error

\* one turn of "for chunk in stream_chunks(rows, chunk_size): copy.write(chunk)":
\* a row is drawn and buffered, and the chunk, when one is due, is written
copy_row ==
    /\ pc = "copying"
    /\ NextOfRows.kind = "yield"
    /\ LET g == NextOfRows
           t == stream_chunks_turn(buffer, size, g.row.row, chunk_size)
       IN  /\ pos' = g.pos
           /\ yielded' = Append(yielded, g.row)
           /\ received' = received + 1
           /\ buffer' = t.buffer
           /\ size' = t.size
           /\ chunks' = chunks \o t.chunk
    /\ stmts' = stmts \o copy_turn_calls(stream_chunks_turn(buffer, size, NextOfRows.row.row, chunk_size).chunk)
    /\ UNCHANGED <<tsVars, sideVars, tz, argv, doc, chunk_size, run, flow, pc, enumerations, params, db,
                   tx, exc, failed, instrument_id, enums_ids, listed, nocopy, load, calls,
                   params_committed, history>>

\* the rows run dry: the rest of the buffer is written, the copy ends and
\* the store applies it
copy_end ==
    /\ pc = "copying"
    /\ NextOfRows.kind = "stop"
    /\ LET out == chunks \o stream_chunks_rest(buffer)
           r   == copy_apply(CopyLines(Concat(out)), tx.data, load)
       IN  /\ pos' = NextOfRows.pos
           /\ chunks' = out
           /\ buffer' = <<>>
           /\ tx' = [tx EXCEPT !.data = r.table]
           /\ IF r.error = "none"
                THEN /\ pc' = "loaded"
                     /\ UNCHANGED <<exc, failed>>
                ELSE /\ exc' = reraise(r.error)
                     /\ failed' = "write_data"
                     /\ pc' = "raised"
    /\ stmts' = stmts \o copy_turn_calls(stream_chunks_rest(buffer)) \o <<"copy.exit">>
    /\ UNCHANGED <<tsVars, sideVars, tz, argv, doc, chunk_size, run, flow, enumerations, params, db,
                   instrument_id, enums_ids, listed, nocopy, size, load, calls,
                   yielded, received, params_committed, history>>

\* parse_values raises inside the copy: the copy is abandoned
copy_raise ==
    /\ pc = "copying"
    /\ NextOfRows.kind = "raise"
    /\ pos' = NextOfRows.pos
    /\ exc' = "ValueError"
    /\ failed' = "parse_values"
    /\ pc' = "raised"
    /\ stmts' = Append(stmts, "copy.exit")
    /\ UNCHANGED <<tsVars, sideVars, tz, argv, doc, chunk_size, run, flow, enumerations, params, db, tx,
                   instrument_id, enums_ids, listed, nocopy, buffer, size, chunks,
                   load, calls, yielded, received, params_committed, history>>

\* a variant of the exit that rolls back whatever the outcome
exit_rolls_back(exc_type, stored, pending) == stored

\* a variant of the exit that commits whatever the outcome
exit_commits(exc_type, stored, pending) == pending

\* if exc_type: self.conn.rollback() else: self.conn.commit()
\* the tables the connection leaves stored
exit_tables(exc_type, stored, pending) == IF exc_type # "none" THEN stored ELSE pending

\* DatabaseClient.__exit__: rollback when an exception leaves the block,
\* commit otherwise; then close
db_exit ==
    /\ \/ pc = "raised"
       \/ pc = "loaded" /\ (flow = "main" \/ calls >= 1)
    /\ db' = exit_tables(exc, db, tx)
    /\ tx' = db'
    /\ history' = Append(history, [flow |-> flow, exc |-> exc, failed |-> failed,
                                   stored |-> Len(db'.data)])
    /\ pc' = "exited"
    /\ stmts' = stmts \o exit_calls(exc)
    /\ UNCHANGED <<tsVars, sideVars, tz, argv, doc, chunk_size, run, flow, pos, enumerations, params, exc,
                   failed, instrument_id, enums_ids, listed, nocopy, buffer, size,
                   chunks, load, calls, yielded, received, params_committed>>

\* the same document is imported again
reimport ==
    /\ pc = "exited"
    /\ run < MaxRuns
    /\ run' = run + 1
    /\ pos' = 0
    /\ enumerations' = <<>>
    /\ params' = NoParams
    /\ exc' = "none"
    /\ failed' = "none"
    /\ calls' = 0
    /\ listed' = <<>>
    /\ yielded' = <<>>
    /\ received' = 0
    /\ params_committed' = FALSE
    /\ pc' = "new"
    /\ UNCHANGED <<tsVars, sideVars, tz, argv, stmts, doc, chunk_size, flow, db, tx, instrument_id, enums_ids,
                   nocopy, buffer, size, chunks, load, history>>

Next ==
    \/ parse_enumerations
    \/ parse_parameters
    \/ db_enter
    \/ do_add_instrument
    \/ do_add_enumerations
    \/ do_add_parameters
    \/ write_data_stream
    \/ list_values
    \/ write_data_nocopy
    \/ copy_row
    \/ copy_end
    \/ copy_raise
    \/ db_exit
    \/ reimport

Spec == Init /\ [][Next]_vars

(***************************************************************************)
(* Properties                                                              *)
(***************************************************************************)
Last(q) == q[Len(q)]

\* the stored rows of a table under one uniqueness key
StoredWithKey(table, key) == Cardinality({i \in 1..Len(table) : DataKey(table[i]) = key})

NoDuplicateKeys(table) ==
    \A i, j \in 1..Len(table) : DataKey(table[i]) = DataKey(table[j]) => i = j

\* the row the store keeps of a row bound to the fallback's INSERT
Bound(row) == DataRow([c \in 1..5 |-> Param(row[c])], 0)

\* text.split(sep)
RECURSIVE split(_, _, _, _)
split(text, sep, i, piece) ==
    IF i > Len(text) THEN <<piece>>
    ELSE IF text[i] = sep THEN <<piece>> \o split(text, sep, i + 1, <<>>)
    ELSE split(text, sep, i + 1, Append(piece, text[i]))

\* text.splitlines(keepends=True) for the line end "\n"
RECURSIVE splitlines(_, _, _)
splitlines(text, i, piece) ==
    IF i > Len(text) THEN (IF piece = <<>> THEN <<>> ELSE <<piece>>)
    ELSE IF text[i] = "\n" THEN <<Append(piece, text[i])>> \o splitlines(text, i + 1, <<>>)
    ELSE splitlines(text, i + 1, Append(piece, text[i]))

\* the declared type of the parameter of the entry a yielded row came from
TypeOf(y) == params[Events(doc)[y.event].pid].type

\* the entries of the document that parse_values can turn into a row
ValidEvents ==
    {k \in 1..Len(Events(doc)) :
        /\ Events(doc)[k].tag = "ValueData"
        /\ ~IsSkipped(params, Events(doc)[k].pid)
        /\ parse_ts_to_utc(Events(doc)[k].ts, tz).ok
        /\ convert_value(Events(doc)[k].val, params[Events(doc)[k].pid].type).ok}

\* the copy of this import has been written to its end
CopyWritten ==
    /\ flow = "main"
    /\ calls >= 1
    /\ pc = "loaded" \/ (pc = "raised" /\ failed = "write_data")

Meta(t) == <<t.instruments, t.enum_types, t.enum_values, t.parameters>>

\* the metadata tables one import of document d leaves in an empty store
UpsertOnce(d) ==
    LET a == add_instrument(<<>>, Microscope)
        e == add_enumerations([EmptyStore EXCEPT !.instruments = a.table], a.id, EnumsOf(d))
        p == add_parameters(e.tables, a.id, ParamsOf(d), e.ids)
    IN  p.tables

\* C1: an import through main (parse_values feeding write_data in its default
\* mode) that meets a datapoint whose (time, instrument, parameter) key is
\* already stored creates no second row with that key and does not abort
C1_DuplicateKeyTolerated ==
    flow = "main" =>
        /\ NoDuplicateKeys(tx.data)
        /\ ~(failed = "write_data" /\ exc = "UniqueViolation")

\* C2: in every import add_parameters has committed before write_data reads
\* its first row, and every row of the data table names a parameter that is
\* in the stored parameter table of its instrument
C2_ParametersBeforeData ==
    /\ received > 0 => params_committed
    /\ \A t \in {tx, db} : \A i \in 1..Len(t.data) :
          \E j \in 1..Len(db.parameters) :
              /\ NatText(db.parameters[j].instrument_id) = t.data[i].instrument_id
              /\ NatText(db.parameters[j].param_id) = t.data[i].param_id

\* an import that stored rows of a document which also holds an entry of an
\* undeclared parameter
C2_Witness ==
    /\ pc = "exited"
    /\ Len(db.data) > 0
    /\ \E i \in 1..Len(doc.values) : doc.values[i].pid \notin DOMAIN ParamsOf(doc)

\* C3: an entry whose timestamp matches no format, or whose value does not
\* convert, is dropped alone: the import does not abort on it and the
\* generator yields every valid entry of the document
C3_BadEntryDropped ==
    /\ failed # "parse_values"
    /\ (pc = "listed" \/ (pc = "loaded" /\ flow = "main")) =>
          {yielded[i].event : i \in 1..Len(yielded)} = ValidEvents

\* C4: the chunks written to the copy, concatenated in write order and split
\* by line, are the serialized rows in their order, whatever the threshold
C4_ChunksReproduceRows ==
    CopyWritten =>
        splitlines(Concat(chunks), 1, <<>>) =
            [i \in 1..Len(yielded) |-> newrow(yielded[i].row)]

\* C5: every line written for a yielded row has exactly five tab-separated
\* fields, ends with its only newline, and carries \N in the value field the
\* declared type leaves absent
C5_FiveFieldLines ==
    flow = "main" =>
        \A i \in 1..Len(yielded) :
            LET line   == newrow(yielded[i].row)
                body   == SubSeq(line, 1, Len(line) - 1)
                fields == split(body, "\t", 1, <<>>)
            IN  /\ line[Len(line)] = "\n"
                /\ \A c \in 1..Len(body) : body[c] # "\n"
                /\ Len(fields) = 5
                /\ fields[IF TypeOf(yielded[i]) = "str" THEN 4 ELSE 5] = NULL

\* C6: for an input with a Z suffix or a numeric offset, with or without a
\* fraction, the text the normalizer returns denotes the instant of the
\* input, to the millisecond
C6_SameInstant ==
    (tsPc = "returned" /\ tsIn.zone.zoned /\ tsOut.ok) =>
        OutInstantMs(tsOut) = TsInstantMs(tsIn)

\* C7: when the copy ends in a uniqueness violation, write_data raises it to
\* its caller, no row of that load is ever committed, and no further load
\* (no retry in fallback mode) is made on its account
C7_CopyViolationFatal ==
    /\ [](failed = "write_data" /\ exc = "UniqueViolation" =>
            /\ pc \in {"raised", "exited"}
            /\ ~nocopy
            /\ \A i \in 1..Len(db.data) : db.data[i].load # load
            /\ pc = "exited" => (tx = db /\ Last(history).exc = "UniqueViolation"))
    /\ [][failed = "write_data" /\ exc = "UniqueViolation" =>
            load' = load /\ nocopy' = nocopy]_vars

\* an import that ended on the uniqueness violation of its copy, after the
\* copy had taken a row
C7_Witness ==
    /\ pc = "exited"
    /\ Last(history).failed = "write_data"
    /\ Last(history).exc = "UniqueViolation"
    /\ received >= 2

\* C8: a fallback load raises no uniqueness error and leaves exactly one
\* stored row for the key of each row it was given, also when the list holds
\* a row twice; a second fallback load of the same rows raises no error and
\* leaves the data table as it was
C8_FallbackTolerant ==
    [][write_data_nocopy =>
        /\ exc' # "UniqueViolation"
        /\ exc' = "none" =>
              \A i \in 1..Len(listed) :
                  StoredWithKey(db'.data, DataKey(Bound(listed[i]))) = 1
        /\ pc = "loaded" => (exc' = "none" /\ db'.data = db.data)]_vars

\* two fallback loads of a list that holds one row twice left one stored row
C8_Witness ==
    /\ flow = "test"
    /\ pc = "loaded"
    /\ calls = 2
    /\ Len(listed) = 2
    /\ listed[1] = listed[2]
    /\ Len(db.data) = 1

\* C9: add_instrument, add_enumerations and add_parameters run again with the
\* input of the first import raise no error and leave the instrument,
\* enumeration and parameter tables as the first import left them
C9_UpsertIdempotent ==
    run >= 2 =>
        /\ failed \notin {"add_instrument", "add_enumerations", "add_parameters"}
        /\ pc \in {"params_added", "listed", "copying", "loaded"} =>
              Meta(tx) = Meta(UpsertOnce(doc))

\* C10: every yielded row has exactly one value slot populated, the numeric
\* one for int and float and the text one for str; the other slot is \N, and
\* the populated slot is neither \N nor the empty string
C10_OneSlotPopulated ==
    \A i \in 1..Len(yielded) :
        LET row == yielded[i].row
        IN  IF TypeOf(yielded[i]) = "str"
              THEN row[4] = NULL /\ row[5] # NULL /\ row[5] # <<>>
              ELSE row[5] = NULL /\ row[4] # NULL /\ row[4] # <<>>

\* whether float(value), int(value) or str(value) can read the raw text
Interpretable(value, value_type) ==
    CASE value_type = "int"   -> IsIntText(value)
      [] value_type = "float" -> value # None /\ IsFloatText(rstrip(lstrip(value)))
      [] OTHER                -> TRUE

\* C11: the encoder returns (integer text, \N) for int, (the float text as
\* given, \N) for float and (\N, raw text) for str, and raises whenever the
\* raw text cannot be read as the declared type, for int and float alike: no
\* row is yielded for such an entry
C11_EncoderByType ==
    /\ \A i \in 1..Len(yielded) :
          LET e   == Events(doc)[yielded[i].event]
              row == yielded[i].row
              ty  == TypeOf(yielded[i])
          IN  /\ Interpretable(e.val, ty)
              /\ ty = "int" => row[4] = str_int(e.val) /\ row[5] = NULL
              /\ ty = "float" => row[4] = str(e.val) /\ row[5] = NULL
              /\ ty = "str" => row[4] = NULL /\ row[5] = str(e.val)
    /\ (failed = "parse_values" /\ parse_ts_to_utc(Events(doc)[pos].ts, tz).ok) =>
          ~Interpretable(Events(doc)[pos].val, params[Events(doc)[pos].pid].type)

\* parse_values has run to its StopIteration in this import
Exhausted == pc = "listed" \/ (pc = "loaded" /\ flow = "main")

\* C12: a value block of a parameter absent from params_dict yields no row
\* and does not stop the stream: it raises nothing, and when the generator
\* ends, the entries of declared parameters, later ones included, have all
\* been yielded in document order
C12_UnknownSkipped ==
    /\ \A i \in 1..Len(yielded) : ~IsSkipped(params, Events(doc)[yielded[i].event].pid)
    /\ failed = "parse_values" => ~IsSkipped(params, Events(doc)[pos].pid)
    /\ Exhausted => [i \in 1..Len(yielded) |-> yielded[i].event] = Ascending(ValidEvents)

\* the generator ended after it had skipped a block of an undeclared
\* parameter and then yielded the row of a later, declared one
C12_Witness ==
    /\ Exhausted
    /\ Len(doc.values) = 2
    /\ IsSkipped(params, doc.values[1].pid)
    /\ Len(yielded) = 1
    /\ yielded[1].event = Len(Events(doc))

(***************************************************************************)
(* The parse methods of one ImportXML called in any order                  *)
(***************************************************************************)
MaxApiCalls == 3

\* a variant of the cursor that starts over after every call
cursor_rewound(k) == 0

\* self.context after a loop over it was left at event k: one iterator,
\* made once in __init__, that every parse method resumes
cursor_after(k) == k

CursorInit ==
    /\ TsIdle
    /\ tz = 0
    /\ \E d \in Documents : PlState(d, SmallChunk, "api")

\* parser.parse_enumerations()
api_parse_enumerations ==
    /\ pc = "api"
    /\ calls < MaxApiCalls
    /\ calls' = calls + 1
    /\ LET k == NextTagged(Events(doc), pos, "Enumerations")
           found == k <= Len(Events(doc))
       IN  /\ pos' = cursor_after(IF found THEN k ELSE Len(Events(doc)))
           /\ enumerations' = IF found THEN EnumsOf(doc) ELSE enumerations
           /\ history' = Append(history, [op |-> "parse_enumerations", from |-> pos,
                                          found |-> found, rows |-> 0, kind |-> "stop"])
    /\ UNCHANGED <<tsVars, sideVars, tz, argv, stmts, doc, chunk_size, run, flow, pc, params, db, tx, exc, failed,
                   instrument_id, enums_ids, listed, nocopy, buffer, size, chunks, load,
                   yielded, received, params_committed>>

\* parser.parse_parameters()
api_parse_parameters ==
    /\ pc = "api"
    /\ calls < MaxApiCalls
    /\ calls' = calls + 1
    /\ LET k == NextTagged(Events(doc), pos, "Instruments")
           found == k <= Len(Events(doc))
       IN  /\ pos' = cursor_after(IF found THEN k ELSE Len(Events(doc)))
           /\ params' = IF found THEN ParamsOf(doc) ELSE params
           /\ history' = Append(history, [op |-> "parse_parameters", from |-> pos,
                                          found |-> found, rows |-> 0, kind |-> "stop"])
    /\ UNCHANGED <<tsVars, sideVars, tz, argv, stmts, doc, chunk_size, run, flow, pc, enumerations, db, tx, exc,
                   failed, instrument_id, enums_ids, listed, nocopy, buffer, size, chunks,
                   load, yielded, received, params_committed>>

\* list(parser.parse_values(instr_id, parser.params)), or its ValueError
api_parse_values ==
    /\ pc = "api"
    /\ calls < MaxApiCalls
    /\ calls' = calls + 1
    /\ LET g == list_rows(Events(doc), pos, params, instrument_id, tz, <<>>)
       IN  /\ pos' = cursor_after(g.pos)
           /\ yielded' = yielded \o g.rows
           /\ listed' = [i \in 1..Len(g.rows) |-> g.rows[i].row]
           /\ history' = Append(history, [op |-> "parse_values", from |-> pos,
                                          found |-> g.rows # <<>>, rows |-> Len(g.rows),
                                          kind |-> g.kind])
    /\ UNCHANGED <<tsVars, sideVars, tz, argv, stmts, doc, chunk_size, run, flow, pc, enumerations, params, db,
                   tx, exc, failed, instrument_id, enums_ids, nocopy, buffer, size, chunks,
                   load, received, params_committed>>

CursorNext ==
    \/ api_parse_enumerations
    \/ api_parse_parameters
    \/ api_parse_values

SpecCursor == CursorInit /\ [][CursorNext]_vars

\* C13: the parse methods advance one forward-only cursor: no event is
\* delivered twice, a traversal of parse_values after one that ran to its end
\* yields no rows, and a parse method called after its section has been
\* passed finds nothing
C13_SharedForwardCursor ==
    /\ \A i \in 1..Len(history) :
          /\ history[i].from <= (IF i < Len(history) THEN history[i + 1].from ELSE pos)
          /\ (history[i].op = "parse_enumerations" /\ history[i].from >= 1) =>
                ~history[i].found
          /\ (history[i].op = "parse_parameters" /\ history[i].from >= 2) =>
                ~history[i].found
          /\ \A j \in 1..(i - 1) :
                (history[j].op = "parse_values" /\ history[j].kind = "stop"
                   /\ history[i].op = "parse_values") => history[i].rows = 0
    /\ \A i, j \in 1..Len(yielded) : i < j => yielded[i].event < yielded[j].event
    /\ (\E i \in 1..Len(history) : history[i].op = "parse_enumerations" /\ history[i].found)
          \/ enumerations = <<>>
    /\ (\E i \in 1..Len(history) : history[i].op = "parse_parameters" /\ history[i].found)
          \/ params = NoParams

\* parse_values was traversed twice, the first time to its end with rows
C13_Witness ==
    /\ Len(history) = 3
    /\ history[1].op = "parse_parameters" /\ history[1].found
    /\ history[2].op = "parse_values" /\ history[2].kind = "stop" /\ history[2].rows > 0
    /\ history[3].op = "parse_values" /\ history[3].rows = 0

(***************************************************************************)
(* The metadata upserts of DatabaseManager called with varying input       *)
(***************************************************************************)
MaxUpserts == 3

\* settings.json entries: the test microscope, the same device with its
\* updatable fields changed, and a second device
Microscopes ==
    { Microscope,
      [Microscope EXCEPT !.model = "Krios G4", !.name = "Renamed", !.template = "talos",
                         !.server = "10.0.0.2"],
      [Microscope EXCEPT !.instrument = "3593, Second", !.serial = 3593] }

OffState == [name |-> "Off_enum", literals |-> <<[name |-> "Off", value |-> 0]>>]

\* enumerations dicts handed to add_enumerations
EnumInputs ==
    { <<>>,
      <<FegState>>,
      <<[FegState EXCEPT !.literals = <<[name |-> "Operate", value |-> 5]>>]>>,
      <<OffState>>,
      <<FegState, OffState>> }

MetaInit ==
    /\ TsIdle
    /\ tz = 0
    /\ PlState(NoDocument, SmallChunk, "upserts")

\* dbm.add_instrument(instr_dict)
meta_add_instrument ==
    /\ pc = "upserts"
    /\ calls < MaxUpserts
    /\ calls' = calls + 1
    /\ \E m \in Microscopes :
          LET r == add_instrument(tx.instruments, m)
          IN  /\ instrument_id' = r.id
              /\ tx' = [tx EXCEPT !.instruments = r.table]
              /\ history' = Append(history,
                    [op |-> "add_instrument", m |-> m, enums |-> <<>>, id |-> r.id,
                     ids |-> enums_ids, error |-> "none", before |-> tx])
    /\ stmts' = stmts \o add_instrument_calls
    /\ UNCHANGED <<tsVars, sideVars, tz, argv, doc, chunk_size, run, flow, pc, pos, enumerations, params,
                   db, exc, failed, enums_ids, listed, nocopy, buffer, size, chunks, load,
                   yielded, received, params_committed>>

\* dbm.add_enumerations(instrument_id, enums_dict)
meta_add_enumerations ==
    /\ pc = "upserts"
    /\ instrument_id # 0
    /\ calls < MaxUpserts
    /\ calls' = calls + 1
    /\ \E enums \in EnumInputs :
          LET r == add_enumerations(tx, instrument_id, enums)
          IN  /\ history' = Append(history,
                    [op |-> "add_enumerations", m |-> Microscope, enums |-> enums,
                     id |-> instrument_id, ids |-> r.ids, error |-> r.error, before |-> tx])
              /\ stmts' = stmts \o add_enumerations_calls(r.error)
              /\ IF r.error = "none"
                   THEN /\ tx' = r.tables
                        /\ db' = r.tables
                        /\ enums_ids' = r.ids
                        /\ UNCHANGED <<exc, failed, pc>>
                   ELSE /\ exc' = r.error
                        /\ failed' = "add_enumerations"
                        /\ pc' = "raised"
                        /\ UNCHANGED <<tx, db, enums_ids>>
    /\ UNCHANGED <<tsVars, sideVars, tz, argv, doc, chunk_size, run, flow, pos, enumerations, params,
                   instrument_id, listed, nocopy, buffer, size, chunks, load, yielded,
                   received, params_committed>>

MetaNext ==
    \/ meta_add_instrument
    \/ meta_add_enumerations

SpecMeta == MetaInit /\ [][MetaNext]_vars

\* the stored instrument rows with the natural key of microscope m
StoredInstruments(table, m) ==
    {i \in 1..Len(table) : table[i].instrument = m.instrument /\ table[i].serial = m.serial}

\* C14: add_instrument called with a natural key that is already stored
\* returns the id of the earlier call, adds no instrument row, and leaves the
\* stored model, name, template and server at the values of this call
C14_InstrumentRefreshed ==
    \A i \in 1..Len(history) :
        LET h == history[i]
            after == IF i < Len(history) THEN history[i + 1].before ELSE tx
            rows == StoredInstruments(after.instruments, h.m)
        IN  (h.op = "add_instrument" /\ StoredInstruments(h.before.instruments, h.m) # {}) =>
                /\ Len(after.instruments) = Len(h.before.instruments)
                /\ \A r \in rows :
                      /\ after.instruments[r].id = h.id
                      /\ h.before.instruments[r].id = h.id
                      /\ after.instruments[r].model = h.m.model
                      /\ after.instruments[r].name = h.m.name
                      /\ after.instruments[r].template = h.m.template
                      /\ after.instruments[r].server = h.m.server

\* the stored rows of member l of enumeration e of the instrument, in tables t
StoredMembers(t, instr, e, l) ==
    {i \in 1..Len(t.enum_values) :
        /\ t.enum_values[i].member_name = l.name
        /\ \E j \in 1..Len(t.enum_types) :
              /\ t.enum_types[j].instrument_id = instr
              /\ t.enum_types[j].name = e.name
              /\ t.enum_types[j].id = t.enum_values[i].enum_id}

\* the tables the i-th call of the upsert history left
TablesAfter(i) == IF i < Len(history) THEN history[i + 1].before ELSE tx

\* C15: add_enumerations given a member whose (enumeration, member name) is
\* already stored, with the same or another value, raises no error, adds no
\* row for the member and leaves its stored value as it was
C15_MemberWriteOnce ==
    \A i \in 1..Len(history) :
        LET h == history[i]
        IN  h.op = "add_enumerations" =>
              \A k \in 1..Len(h.enums) : \A n \in 1..Len(h.enums[k].literals) :
                  LET e == h.enums[k]
                      l == e.literals[n]
                      was == StoredMembers(h.before, h.id, e, l)
                      now == StoredMembers(TablesAfter(i), h.id, e, l)
                  IN  was # {} =>
                        /\ h.error = "none"
                        /\ now = was
                        /\ \A r \in was :
                              TablesAfter(i).enum_values[r] = h.before.enum_values[r]

\* the mapping ids sends every enumeration of enums to the id its members
\* are stored under in tables t, and no two names to one id
Resolves(ids, enums, t) ==
    /\ \A k \in 1..Len(enums) :
          /\ enums[k].name \in DOMAIN ids
          /\ \A n \in 1..Len(enums[k].literals) :
                \E r \in 1..Len(t.enum_values) :
                    /\ t.enum_values[r].enum_id = ids[enums[k].name]
                    /\ t.enum_values[r].member_name = enums[k].literals[n].name
    /\ \A a, b \in DOMAIN ids : ids[a] = ids[b] => a = b

\* C16: every add_enumerations call, on a first import and on a re-import
\* alike, returns a mapping that sends each enum name of its input to the
\* identifier its members are stored under, no two names to one identifier
C16_MappingResolves ==
    \A i \in 1..Len(history) :
        history[i].op = "add_enumerations" =>
            /\ history[i].error = "none"
            /\ Resolves(history[i].ids, history[i].enums, TablesAfter(i))

(***************************************************************************)
(* The fallback load on its own: rows given as a one-pass iterator or as   *)
(* a list, to DatabaseManager.write_data(nocopy=True) and to               *)
(* DatabaseClient.write_data                                               *)
(***************************************************************************)
MaxRows == 3

MaxSubmitted == 6

\* the batch_size the caller passes (the default is 15000)
batch_size == 2

RowPool ==
    { Row(parse_ts_to_utc(TsA, 0), 1, 1, convert_value(<<"7">>, "int")),
      Row(parse_ts_to_utc(TsB, 0), 1, 1, convert_value(<<"8">>, "int")),
      Row(parse_ts_to_utc(TsA, 0), 1, 2, convert_value(<<"o", "k">>, "str")) }

RowInputs == SeqsUpTo(RowPool, MaxRows)

\* list(islice(iterable, n)): islice takes iter(iterable), which for an
\* iterator (flow "main") is the iterator itself, resuming where it stands,
\* and for a list (flow "test") is a new iterator over the whole list
islice(rows, kind, at, n) ==
    LET from == IF kind = "test" THEN 0 ELSE at
        to   == IF from + n < Len(rows) THEN from + n ELSE Len(rows)
    IN  [batch |-> SubSeq(rows, from + 1, to),
         pos   |-> IF kind = "test" THEN at ELSE to]

FallbackInit ==
    /\ TsIdle
    /\ tz = 0
    /\ PlState(NoDocument, SmallChunk, "fallback")

\* the caller holds the rows: a generator (flow "main") or a list (flow "test")
rows_given ==
    /\ pc = "fallback"
    /\ listed' \in RowInputs
    /\ flow' \in {"main", "test"}
    /\ pc' = "given"
    /\ UNCHANGED <<tsVars, sideVars, tz, argv, stmts, doc, chunk_size, run, pos, enumerations, params, db, tx,
                   exc, failed, instrument_id, enums_ids, nocopy, buffer, size, chunks,
                   load, calls, yielded, received, params_committed, history>>

\* DatabaseManager.write_data(rows, name, nocopy=True):
\* executemany draws every row of rows once, then commit
manager_write_data ==
    /\ pc = "given"
    /\ nocopy' = TRUE
    /\ load' = load + 1
    /\ pos' = Len(listed)
    /\ yielded' = yielded \o listed
    /\ received' = received + Len(listed)
    /\ tx' = [tx EXCEPT !.data = insert_ignore(listed, tx.data, load + 1).table]
    /\ db' = tx'
    /\ pc' = "loaded"
    /\ stmts' = stmts \o nocopy_calls("none")
    /\ UNCHANGED <<tsVars, sideVars, tz, argv, doc, chunk_size, run, flow, enumerations, params, exc,
                   failed, instrument_id, enums_ids, listed, buffer, size, chunks, calls,
                   params_committed, history>>

\* DatabaseClient.write_data(rows, batch_size): one turn of
\* "for batch in batch_iterator(rows, batch_size): execute_values(...)",
\* and the commit once batch_iterator breaks on an empty batch
client_write_data ==
    /\ pc \in {"given", "batching"}
    /\ received < MaxSubmitted
    /\ LET b == islice(listed, flow, pos, batch_size)
       IN  IF b.batch = <<>>
             THEN /\ db' = tx
                  /\ pc' = "loaded"
                  /\ UNCHANGED <<pos, yielded, received, tx, load>>
             ELSE /\ pos' = b.pos
                  /\ yielded' = yielded \o b.batch
                  /\ received' = received + Len(b.batch)
                  /\ load' = 1
                  /\ tx' = [tx EXCEPT !.data = insert_ignore(b.batch, tx.data, 1).table]
                  /\ pc' = "batching"
                  /\ UNCHANGED db
    /\ stmts' = stmts \o (IF islice(listed, flow, pos, batch_size).batch = <<>>
                          THEN client_end_calls ELSE <<"execute_values">>)
    /\ UNCHANGED <<tsVars, sideVars, tz, argv, doc, chunk_size, run, flow, enumerations, params, exc,
                   failed, instrument_id, enums_ids, listed, nocopy, buffer, size, chunks,
                   calls, params_committed, history>>

FallbackNext == rows_given \/ manager_write_data \/ client_write_data

SpecFallback == FallbackInit /\ [][FallbackNext]_vars

\* C17: the fallback load submits the rows of its input in order, none
\* twice, and has submitted every one of them when it returns; the input
\* is a one-pass iterator or a list
C17_FallbackOnce ==
    /\ Len(yielded) <= Len(listed)
    /\ yielded = SubSeq(listed, 1, Len(yielded))
    /\ pc = "loaded" => yielded = listed

\* the lines of the rows drawn from the generator so far
Lines == [i \in 1..Len(yielded) |-> newrow(yielded[i].row)]

\* the lines a+1..b, joined
Joined(a, b) == Concat(SubSeq(Lines, a + 1, b))

\* the number of the last line of each written chunk: the written chunks
\* are the consecutive non-empty groups of lines these numbers end
Cuts ==
    {c \in [1..Len(chunks) -> 1..Len(yielded)] :
        \A j \in 1..Len(chunks) :
            LET a == IF j = 1 THEN 0 ELSE c[j - 1]
            IN  /\ a < c[j]
                /\ chunks[j] = Joined(a, c[j])}

\* a chunk that reached the threshold with its final row
FlushedAtThreshold(c, j) ==
    /\ ByteLen(chunks[j]) >= chunk_size
    /\ ByteLen(chunks[j]) - ByteLen(Lines[c[j]]) < chunk_size

\* C18: the chunks written are consecutive groups of the serialized rows;
\* every chunk but the last reached the byte threshold with its final row
\* and not before, the buffer is kept below the threshold while rows are
\* drawn, the last chunk is non-empty and holds what was left, and no row
\* means no chunk
C18_FlushAtByteThreshold ==
    /\ (flow = "main" /\ pc = "copying") =>
          \E c \in Cuts :
              LET done == IF chunks = <<>> THEN 0 ELSE c[Len(chunks)]
              IN  /\ \A j \in 1..Len(chunks) : FlushedAtThreshold(c, j)
                  /\ Concat(buffer) = Joined(done, Len(yielded))
                  /\ size = ByteLen(Concat(buffer))
                  /\ size < chunk_size
    /\ CopyWritten =>
          \E c \in Cuts :
              LET done == IF chunks = <<>> THEN 0 ELSE c[Len(chunks)]
              IN  /\ done = Len(yielded)
                  /\ \A j \in 1..Len(chunks) :
                        \/ FlushedAtThreshold(c, j)
                        \/ j = Len(chunks) /\ ByteLen(chunks[j]) < chunk_size

\* a copy written in more than one chunk
C18_Witness ==
    /\ CopyWritten
    /\ Len(chunks) >= 2
    /\ \A j \in 1..Len(chunks) : chunks[j] # <<>>

\* C19: leaving the connection context on an exception rolls the open
\* transaction back, so that the store is as the last commit left it and
\* holds no data row of a load that failed; leaving it without one commits
\* what is pending; either way the connection is closed afterwards
C19_ExitSettles ==
    [][db_exit =>
        /\ pc' = "exited"
        /\ tx' = db'
        /\ exc # "none" =>
              /\ db' = db
              /\ failed = "write_data" =>
                    \A i \in 1..Len(db'.data) : db'.data[i].load # load
        /\ exc = "none" => db' = tx]_vars

\* an import left on the error of a load that had sent rows to the store
C19_Witness ==
    /\ pc = "exited"
    /\ Last(history).exc # "none"
    /\ Last(history).failed = "write_data"
    /\ chunks # <<>>
    /\ \A i \in 1..Len(db.data) : db.data[i].load # load

(***************************************************************************)
(* main: the checks of its two files, then the import                      *)
(***************************************************************************)
\* s.endswith(suffix)
endswith(s, suffix) ==
    /\ Len(suffix) <= Len(s)
    /\ SubSeq(s, Len(s) - Len(suffix) + 1, Len(s)) = suffix

\* s.rfind(c): the last index of c in s, 0 when there is none
rfind(s, c) ==
    LET at == {i \in 1..Len(s) : s[i] = c}
    IN  IF at = {} THEN 0 ELSE CHOOSE i \in at : \A j \in at : j <= i

\* os.path.splitext(p)[1]: from the last dot of the last path component,
\* unless nothing but dots precedes it there
splitext(p) ==
    LET sep == rfind(p, "/")
        dot == rfind(p, ".")
    IN  IF dot > sep /\ \E k \in (sep + 1)..(dot - 1) : p[k] # "."
          THEN SubSeq(p, dot, Len(p))
          ELSE <<>>

DotJson == <<".", "j", "s", "o", "n">>

DotXml == <<".", "x", "m", "l">>

DotGz == <<".", "g", "z">>

DotTxt == <<".", "t", "x", "t">>

\* a settings file listing the microscope, as tokens
SettingsJson == <<"[", "{microscope}", "]">>

JsonTexts == { <<>>, <<"[", "]">>, <<"{">>, SettingsJson }

\* json.load(f): the value, or JSONDecodeError
json_load(text) ==
    CASE text = SettingsJson  -> [ok |-> TRUE, value |-> <<Microscope>>]
      [] text = <<"[", "]">>  -> [ok |-> TRUE, value |-> <<>>]
      [] OTHER                -> [ok |-> FALSE, value |-> <<>>]

SettingsPaths == { <<"s">> \o DotJson, <<"s">> \o DotTxt }

InputPaths ==
    { <<"d">> \o DotXml, <<"d">> \o DotXml \o DotGz, <<"d">> \o DotGz,
      <<"d">> \o DotTxt, <<"d">>, DotGz }

\* the files main can be called on; bytes is what the input file holds:
\* an export document as text, or one compressed with gzip
Invocations ==
    { [settings |-> [path |-> sp, exists |-> se, text |-> st],
       input    |-> [path |-> ip, exists |-> ie, bytes |-> ib]] :
        sp \in SettingsPaths, se \in BOOLEAN, st \in JsonTexts,
        ip \in InputPaths, ie \in BOOLEAN, ib \in {"xml", "gzip"} }

\* the export document the input files hold
MainDocument ==
    [enums |-> <<FegState>>, params |-> DocParams,
     values |-> <<ValueData(1, TsA, <<"7">>), ValueData(2, TsA, <<"o", "k">>)>>]

\* self.file as opened by ImportXML.__init__ reads as an export document
opens_as_xml(a) ==
    IF endswith(a.input.path, DotXml \o DotGz) THEN a.input.bytes = "gzip"
    ELSE a.input.bytes = "xml"

\* a variant of the checks without the test of the extension
main_checks_any_extension(a) ==
    IF ~(a.settings.exists /\ endswith(a.settings.path, DotJson)) THEN "SystemExit"
    ELSE IF ~json_load(a.settings.text).ok THEN "SystemExit"
    ELSE IF json_load(a.settings.text).value = <<>> THEN "SystemExit"
    ELSE IF ~a.input.exists THEN "SystemExit"
    ELSE IF splitext(a.input.path) = DotGz /\ a.input.bytes # "gzip" THEN "IOError"
    ELSE IF ~opens_as_xml(a) THEN "ParseError"
    ELSE "none"

\* main up to the first parse: the exception it ends on, "none" when the
\* import goes ahead
main_checks(a) ==
    IF ~(a.settings.exists /\ endswith(a.settings.path, DotJson)) THEN "SystemExit"
    ELSE IF ~json_load(a.settings.text).ok THEN "SystemExit"
    ELSE IF json_load(a.settings.text).value = <<>> THEN "SystemExit"
    ELSE IF ~a.input.exists THEN "SystemExit"
    ELSE IF splitext(a.input.path) \in {DotXml, DotGz}
      THEN IF splitext(a.input.path) = DotGz /\ a.input.bytes # "gzip" THEN "IOError"
           ELSE IF ~opens_as_xml(a) THEN "ParseError"
           ELSE "none"
    ELSE "SystemExit"

MainInit ==
    /\ TsIdle
    /\ tz = 0
    /\ PlState(NoDocument, SmallChunk, "shell")

\* import_xml -i input -s settings
main_called ==
    /\ pc = "shell"
    /\ argv' \in Invocations
    /\ pc' = "invoked"
    /\ UNCHANGED <<tsVars, sideVars, tz, stmts, doc, chunk_size, run, flow, pos, enumerations, params, db,
                   tx, exc, failed, instrument_id, enums_ids, listed, nocopy, buffer, size,
                   chunks, load, calls, yielded, received, params_committed, history>>

\* main: the settings file and the input are checked and the input is opened
main_start ==
    /\ pc = "invoked"
    /\ LET e == main_checks(argv)
       IN  IF e = "none"
             THEN /\ doc' = MainDocument
                  /\ pc' = "new"
                  /\ UNCHANGED <<exc, failed>>
             ELSE /\ exc' = e
                  /\ failed' = "main"
                  /\ pc' = "stopped"
                  /\ UNCHANGED doc
    /\ UNCHANGED <<tsVars, sideVars, tz, argv, stmts, chunk_size, run, flow, pos, enumerations, params, db,
                   tx, instrument_id, enums_ids, listed, nocopy, buffer, size, chunks,
                   load, calls, yielded, received, params_committed, history>>

MainNext ==
    \/ main_called
    \/ main_start
    \/ parse_enumerations
    \/ parse_parameters
    \/ db_enter
    \/ do_add_instrument
    \/ do_add_enumerations
    \/ do_add_parameters
    \/ write_data_stream
    \/ copy_row
    \/ copy_end
    \/ db_exit

SpecMain == MainInit /\ [][MainNext]_vars

\* the settings file is missing, not a .json file, empty or unparsable, or
\* the input is missing or has an extension other than .xml and .gz
Rejected(a) ==
    \/ ~a.settings.exists
    \/ ~endswith(a.settings.path, DotJson)
    \/ a.settings.text = <<>>
    \/ ~json_load(a.settings.text).ok
    \/ json_load(a.settings.text).value = <<>>
    \/ ~a.input.exists
    \/ splitext(a.input.path) \notin {DotXml, DotGz}

\* C20: called on a settings file that is missing, not a .json file, empty
\* or unparsable, or on an input that is missing or has an extension other
\* than .xml and .gz, main stops on an error with no connection to the store
\* opened and no row written
C20_RejectedBeforeStore ==
    (pc # "shell" /\ Rejected(argv)) =>
        /\ pc \in {"invoked", "stopped"}
        /\ pc = "stopped" => exc = "SystemExit"
        /\ db = EmptyStore
        /\ tx = EmptyStore

\* main stopped on an input whose extension it does not take, its settings
\* file being in order
C20_Witness ==
    /\ pc = "stopped"
    /\ exc = "SystemExit"
    /\ argv.settings.exists
    /\ endswith(argv.settings.path, DotJson)
    /\ json_load(argv.settings.text).value # <<>>
    /\ argv.input.exists
    /\ splitext(argv.input.path) \notin {DotXml, DotGz}

\* the call that closes the copy opened by call i, past the end when it is
\* still open
CopyClose(i) ==
    LET later == {j \in (i + 1)..Len(stmts) : stmts[j] = "copy.exit"}
    IN  IF later = {} THEN Len(stmts) + 1 ELSE CHOOSE j \in later : \A k \in later : j <= k

\* C21: from the opening of a copy to its close, the only calls made on the
\* connection are the writes of chunks to that copy; and while write_data is
\* in its copy loop the copy it opened is the open one
C21_CopyExclusive ==
    /\ \A i \in 1..Len(stmts) :
          stmts[i] = "copy" =>
              \A j \in (i + 1)..(CopyClose(i) - 1) : stmts[j] = "copy.write"
    /\ pc = "copying" =>
          \E i \in 1..Len(stmts) : stmts[i] = "copy" /\ CopyClose(i) = Len(stmts) + 1

\* a copy that was opened, written in two chunks and closed
C21_Witness ==
    /\ pc = "loaded"
    /\ \E i \in 1..Len(stmts) :
          /\ stmts[i] = "copy"
          /\ CopyClose(i) = i + 3
          /\ CopyClose(i) = Len(stmts)
    /\ Len(yielded) = 2

(***************************************************************************)
(* parse_parameters on its own: the Instrument entries of the Instruments  *)
(* section, the attributes of their Parameter elements, and the settings   *)
(***************************************************************************)
MaxInstruments == 2

\* None, where a string is expected
Absent == NoEnum

\* elem.get(name, None), elem.get(name)
get(attrs, name) == IF name \in DOMAIN attrs THEN attrs[name] ELSE Absent

\* value or None
or_none(v) == IF v = "" THEN Absent ELSE v

\* Parameter elements: all optional attributes given, none given, all empty,
\* and one that uses the ID of the first again
ParameterPool ==
    [full  |-> [ID |-> 1,
                attrs |-> ("Type" :> "Int" @@ "EnumerationName" :> "FegState_enum" @@
                           "StorageUnit" :> "V" @@ "DisplayUnit" :> "kV" @@
                           "DisplayScale" :> "Linear")],
     bare  |-> [ID |-> 2, attrs |-> ("Type" :> "String")],
     empty |-> [ID |-> 3,
                attrs |-> ("Type" :> "Float" @@ "EnumerationName" :> "" @@
                           "StorageUnit" :> "" @@ "DisplayUnit" :> "" @@
                           "DisplayScale" :> "")],
     again |-> [ID |-> 1, attrs |-> ("Type" :> "Float" @@ "StorageUnit" :> "")]]

ParameterLists ==
    { <<>>,
      <<ParameterPool.full>>,
      <<ParameterPool.bare, ParameterPool.empty>>,
      <<ParameterPool.again>>,
      <<ParameterPool.full, ParameterPool.empty>> }

SecondMicroscope == [Microscope EXCEPT !.instrument = "3593, Second", !.serial = 3593]

InstrumentNames == {Microscope.instrument, SecondMicroscope.instrument, "0000, Unlisted"}

\* Instrument elements: the Name attribute and the Parameter elements below
InstrumentPool == [Name : InstrumentNames, parameters : ParameterLists]

SettingsPool == { <<Microscope>>, <<Microscope, SecondMicroscope>> }

\* self.microscope before set_microscope
NoMicroscope == [instrument |-> Absent]

\* self.params[param_id] = {...} of one Parameter element
param_dict(p) ==
    [type          |-> known_types(get(p.attrs, "Type")),
     enum          |-> get(p.attrs, "EnumerationName"),
     storage_unit  |-> or_none(get(p.attrs, "StorageUnit")),
     display_unit  |-> or_none(get(p.attrs, "DisplayUnit")),
     display_scale |-> or_none(get(p.attrs, "DisplayScale"))]

\* self.params after the Parameter elements ps, in document order
RECURSIVE params_after(_, _)
params_after(ps, acc) ==
    IF ps = <<>> THEN acc
    ELSE params_after(Tail(ps),
                      [id \in DOMAIN acc \cup {ps[1].ID} |->
                          IF id = ps[1].ID THEN param_dict(ps[1]) ELSE acc[id]])

\* set_microscope: the first settings entry of that name; ValueError when
\* its type is neither tem nor sem, or when no microscope is set after it
set_microscope(json_info, instr_name, microscope) ==
    LET hits == {i \in 1..Len(json_info) : json_info[i].instrument = instr_name}
    IN  IF hits # {}
          THEN LET m == json_info[CHOOSE i \in hits : \A j \in hits : i <= j]
               IN  [error |-> IF m.type \in {"tem", "sem"} THEN "none" ELSE "ValueError",
                    microscope |-> m]
        ELSE [error |-> IF microscope = NoMicroscope THEN "ValueError" ELSE "none",
              microscope |-> microscope]

\* a variant of the loop over the Instrument elements without its break
RECURSIVE instruments_all(_, _, _, _)
instruments_all(instruments, json_info, microscope, acc) ==
    IF instruments = <<>> THEN [error |-> "none", microscope |-> microscope, params |-> acc]
    ELSE LET m == set_microscope(json_info, instruments[1].Name, microscope)
         IN  IF m.error # "none"
               THEN [error |-> m.error, microscope |-> m.microscope, params |-> acc]
             ELSE instruments_all(Tail(instruments), json_info, m.microscope,
                                  params_after(instruments[1].parameters, acc))

\* for instrument in elem.findall('ns:Instrument'): ... break
instruments_loop(instruments, json_info, microscope, acc) ==
    IF instruments = <<>> THEN [error |-> "none", microscope |-> microscope, params |-> acc]
    ELSE LET m == set_microscope(json_info, instruments[1].Name, microscope)
         IN  IF m.error # "none"
               THEN [error |-> m.error, microscope |-> m.microscope, params |-> acc]
             ELSE [error |-> "none", microscope |-> m.microscope,
                   params |-> params_after(instruments[1].parameters, acc)]

InstrumentsInit ==
    /\ TsIdle
    /\ tz = 0
    /\ \E q \in SeqsUpTo(InstrumentPool, MaxInstruments), j \in SettingsPool :
          PlState([instruments |-> q, json_info |-> j], SmallChunk, "instruments")

\* parser.parse_parameters() on a document with these Instrument elements
parse_instruments ==
    /\ pc = "instruments"
    /\ LET r == instruments_loop(doc.instruments, doc.json_info, NoMicroscope, NoParams)
       IN  /\ params' = r.params
           /\ history' = <<[op |-> "parse_parameters", microscope |-> r.microscope]>>
           /\ exc' = r.error
           /\ failed' = IF r.error = "none" THEN "none" ELSE "parse_parameters"
           /\ pc' = IF r.error = "none" THEN "params_parsed" ELSE "raised"
    /\ UNCHANGED <<tsVars, sideVars, tz, argv, stmts, doc, chunk_size, run, flow, pos, enumerations,
                   db, tx, instrument_id, enums_ids, listed, nocopy, buffer, size, chunks,
                   load, calls, yielded, received, params_committed>>

InstrumentsNext == parse_instruments

SpecInstruments == InstrumentsInit /\ [][InstrumentsNext]_vars

\* C22: parse_parameters takes the microscope and the parameters from the
\* first Instrument entry alone, whatever entries follow it
C22_FirstInstrumentOnly ==
    (pc \in {"params_parsed", "raised"} /\ doc.instruments # <<>>) =>
        LET first == doc.instruments[1]
            known == \E i \in 1..Len(doc.json_info) :
                        doc.json_info[i].instrument = first.Name
        IN  /\ pc = "params_parsed" <=> known
            /\ pc = "params_parsed" =>
                  /\ history[1].microscope.instrument = first.Name
                  /\ params = params_after(first.parameters, NoParams)
            /\ pc = "raised" => params = NoParams

\* two Instrument entries, both listed in the settings, the second with a
\* parameter the first does not have
C22_Witness ==
    /\ pc = "params_parsed"
    /\ Len(doc.instruments) = 2
    /\ doc.instruments[2].Name = SecondMicroscope.instrument
    /\ Len(doc.json_info) = 2
    /\ doc.instruments[1].parameters = <<ParameterPool.full>>
    /\ doc.instruments[2].parameters = <<ParameterPool.bare, ParameterPool.empty>>

\* the optional attributes of a Parameter element and the keys they are
\* recorded under
OptionalAttrs ==
    { <<"StorageUnit", "storage_unit">>, <<"DisplayUnit", "display_unit">>,
      <<"DisplayScale", "display_scale">>, <<"EnumerationName", "enum">> }

\* the Parameter element of the first Instrument entry that params[id] is
\* taken from: the last one with this ID
SourceOf(id) ==
    LET ps == doc.instruments[1].parameters
        at == {i \in 1..Len(ps) : ps[i].ID = id}
    IN  ps[CHOOSE i \in at : \A j \in at : j <= i]

\* C26: an optional attribute that the document leaves out or leaves empty
\* is recorded as None, for every extracted parameter
C26_OptionalAsNone ==
    pc = "params_parsed" =>
        \A id \in DOMAIN params : \A a \in OptionalAttrs :
            get(SourceOf(id).attrs, a[1]) \in {Absent, ""} => params[id][a[2]] = Absent

\* the (instant, parameter) pairs of the value entries of the document whose
\* parameter the Instruments section declares
KnownKeys ==
    {<<TsInstantMs(doc.values[i].ts), doc.values[i].pid>> :
        i \in {j \in 1..Len(doc.values) : doc.values[j].pid \in DOMAIN ParamsOf(doc)}}

C24_FixedWidthMillis ==
    (tsPc = "returned" /\ tsOut.ok) =>
        /\ Len(tsOut.tail) = 11
        /\ IsDigits(SubSeq(tsOut.tail, 1, 2))
        /\ tsOut.tail[3] = "."
        /\ IsDigits(SubSeq(tsOut.tail, 4, 6))
        /\ tsOut.tail[7] \in {"+", "-"}
        /\ IsDigits(SubSeq(tsOut.tail, 8, 11))

\* the calls that send rows to the store, and the calls that run a query
WriteCalls == {"executemany", "execute_values", "copy.write", "copy.exit"}

QueryCalls == {"run_query", "execute"}

\* C25: when write_data has returned from a load, in either mode, a query
\* was run on the connection after the last call that wrote rows: the row
\* count it reports is read from the store
C25_CountQueriedAfterLoad ==
    (pc = "loaded" /\ load > 0) =>
        \E q \in 1..Len(stmts) :
            /\ stmts[q] \in QueryCalls
            /\ \E w \in 1..(q - 1) : stmts[w] \in WriteCalls
            /\ \A w \in (q + 1)..Len(stmts) : stmts[w] \notin WriteCalls

\* ---------------------------------------------------------------------------
\* utils/watcher.py: FileWatcher waits for a modified file to stop growing
\* ---------------------------------------------------------------------------

stable_time == 2
MaxPolls == 5
MaxSize == 2

\* what os.path.getsize finds at one poll: a size, or no file
Gone == [found |-> FALSE, size |-> 0]
Observations == {Gone} \cup { [found |-> TRUE, size |-> n] : n \in 0..MaxSize }

\* one turn of the loop that forgets to restart the count
wait_turn_keeps_count(last, unchanged, sz, stable) ==
    IF sz = last /\ sz > 0
    THEN [last_size |-> last, unchanged_time |-> unchanged + 1,
          import |-> unchanged + 1 >= stable]
    ELSE [last_size |-> sz, unchanged_time |-> unchanged, import |-> FALSE]

\* one turn of the loop of wait_until_complete once the size is known
wait_turn(last, unchanged, sz, stable) ==
    IF sz = last /\ sz > 0
    THEN [last_size |-> last, unchanged_time |-> unchanged + 1,
          import |-> unchanged + 1 >= stable]
    ELSE [last_size |-> sz, unchanged_time |-> 0, import |-> FALSE]

WatcherInit ==
    /\ TsIdle
    /\ tz = "UTC"
    /\ PlState(NoDocument, SmallChunk, "observer")

\* on_modify: the observer reports a modified file and the wait begins
on_modify ==
    /\ pc = "observer"
    /\ last_size' = -1
    /\ unchanged_time' = 0
    /\ pc' = "watching"
    /\ UNCHANGED <<tsVars, futures, current_ver, latest_ver, tz, argv, stmts, doc, chunk_size, run, flow, pos, enumerations,
                   params, db, tx, exc, failed, instrument_id, enums_ids, listed, nocopy,
                   buffer, size, chunks, load, calls, yielded, received, params_committed,
                   history>>

\* one poll of wait_until_complete: the size is read, then either the call
\* returns (no file), the import is started and the call returns, or the
\* loop sleeps and polls again
poll ==
    /\ pc = "watching"
    /\ Len(history) < MaxPolls
    /\ \E o \in Observations :
        /\ history' = Append(history, o)
        /\ IF ~o.found
           THEN /\ pc' = "returned"
                /\ UNCHANGED <<last_size, unchanged_time, calls>>
           ELSE LET t == wait_turn(last_size, unchanged_time, o.size, stable_time)
                IN  /\ last_size' = t.last_size
                    /\ unchanged_time' = t.unchanged_time
                    /\ calls' = IF t.import THEN calls + 1 ELSE calls
                    /\ pc' = IF t.import THEN "returned" ELSE "watching"
    /\ UNCHANGED <<tsVars, futures, current_ver, latest_ver, tz, argv, stmts, doc, chunk_size, run, flow, pos, enumerations,
                   params, db, tx, exc, failed, instrument_id, enums_ids, listed, nocopy,
                   buffer, size, chunks, load, yielded, received, params_committed>>

WatcherNext ==
    \/ on_modify
    \/ poll

SpecWatcher == WatcherInit /\ [][WatcherNext]_vars

\* C27: the import is started only when the last stable_time polls each found
\* the same size greater than zero; after a poll that found a size other than
\* the one before, the count is zero; one call starts at most one import; and
\* a poll that finds no file ends the call with no import started.
C27_ImportAfterStableSize ==
    /\ calls <= 1
    /\ calls = 1 =>
        /\ pc = "returned"
        /\ Len(history) >= stable_time
        /\ \A i \in (Len(history) - stable_time + 1)..Len(history) :
            /\ history[i].found
            /\ history[i].size > 0
            /\ history[i].size = history[Len(history)].size
    /\ (Len(history) >= 2 /\ history[Len(history)].found
            /\ history[Len(history)] # history[Len(history) - 1]) =>
        unchanged_time = 0
    /\ (Len(history) >= 1 /\ ~history[Len(history)].found) =>
        (pc = "returned" /\ calls = 0)

\* an import started after the size changed once during the wait
C27_Witness ==
    /\ calls = 1
    /\ pc = "returned"
    /\ \E i \in 2..Len(history) : history[i].size # history[i - 1].size

\* ---------------------------------------------------------------------------
\* uec_manager.py: UECManager.run_all_tasks imports the alarms of every server
\* ---------------------------------------------------------------------------

MaxServers == 5

NoResult == [ops |-> <<>>, error |-> FALSE]

\* what the calls of one process_server do: each query of the server returns
\* rows (data may return none) or raises, each import is done or raises
Outcome(m, im, d, id) ==
    [metadata |-> m, import_metadata |-> im, data |-> d, import_data |-> id]

\* one outcome per way process_server can end, met in turn by the servers
OutcomeCycle ==
    << Outcome("rows", "ok", "rows", "ok"),
       Outcome("rows", "ok", "rows", "raise"),
       Outcome("rows", "ok", "empty", "ok"),
       Outcome("raise", "ok", "rows", "ok"),
       Outcome("rows", "raise", "rows", "ok"),
       Outcome("rows", "ok", "raise", "ok") >>

\* self.servers as get_servers reads it: n servers, the first one meeting
\* the outcome after the r-th of the cycle
Servers(n, r) ==
    [i \in 1..n |-> OutcomeCycle[((i + r - 1) % Len(OutcomeCycle)) + 1]]

\* process_server: the calls it makes, in order, and whether one of them raised
process_server(o) ==
    IF o.metadata = "raise"
    THEN [ops |-> <<"get_metadata">>, error |-> TRUE]
    ELSE IF o.import_metadata = "raise"
    THEN [ops |-> <<"get_metadata", "import_metadata">>, error |-> TRUE]
    ELSE IF o.data = "raise"
    THEN [ops |-> <<"get_metadata", "import_metadata", "get_data">>, error |-> TRUE]
    ELSE IF o.data = "empty"
    THEN [ops |-> <<"get_metadata", "import_metadata", "get_data">>, error |-> FALSE]
    ELSE [ops |-> <<"get_metadata", "import_metadata", "get_data", "import_data">>,
          error |-> o.import_data = "raise"]

\* workers = min(len(self.servers), 4)
workers(n) == IF n < 4 THEN n ELSE 4

\* the loop over the completed futures without its try
future_result_reraises(error) == [logged |-> FALSE, raised |-> error]

\* try: future.result() except Exception: logger.error(...)
future_result(error) == [logged |-> error, raised |-> FALSE]

Running == {i \in 1..Len(futures) : futures[i].state = "running"}
Pending == {i \in 1..Len(futures) : futures[i].state = "pending"}

UecInit ==
    /\ TsIdle
    /\ tz = "UTC"
    /\ PlState(NoDocument, SmallChunk, "uec")

\* run_all_tasks up to the submission: get_servers leaves when the MSSQL
\* account is not set, raises when no instrument has a server, and else one
\* task per server is submitted
submit_all ==
    /\ pc = "uec"
    /\ \E account \in BOOLEAN, n \in 0..MaxServers, r \in 0..(Len(OutcomeCycle) - 1) :
        IF ~account
        THEN /\ pc' = "exited"
             /\ exc' = "SystemExit"
             /\ UNCHANGED futures
        ELSE IF n = 0
        THEN /\ pc' = "raised"
             /\ exc' = "ValueError"
             /\ UNCHANGED futures
        ELSE /\ pc' = "pool"
             /\ exc' = "none"
             /\ futures' = [i \in 1..n |->
                    [server |-> Servers(n, r)[i],
                     state |-> "pending", result |-> NoResult,
                     collected |-> FALSE, logged |-> FALSE]]
    /\ UNCHANGED <<tsVars, last_size, unchanged_time, current_ver, latest_ver, tz, argv, stmts, doc, chunk_size, run, flow, pos, enumerations,
                   params, db, tx, failed, instrument_id, enums_ids, listed, nocopy,
                   buffer, size, chunks, load, calls, yielded, received, params_committed,
                   history>>

\* a free worker of the pool takes the oldest task waiting
worker_takes ==
    /\ pc = "pool"
    /\ Pending # {}
    /\ Cardinality(Running) < workers(Len(futures))
    /\ LET i == CHOOSE j \in Pending : \A k \in Pending : j <= k
       IN  futures' = [futures EXCEPT ![i].state = "running"]
    /\ UNCHANGED <<tsVars, last_size, unchanged_time, current_ver, latest_ver, tz, argv, stmts, doc, chunk_size, run, flow, pc, pos,
                   enumerations, params, db, tx, exc, failed, instrument_id, enums_ids,
                   listed, nocopy, buffer, size, chunks, load, calls, yielded, received,
                   params_committed, history>>

\* one task runs process_server to its return or to the call that raises
task_runs ==
    /\ pc = "pool"
    /\ \E i \in Running :
        futures' = [futures EXCEPT ![i].state = "finished",
                                   ![i].result = process_server(futures[i].server)]
    /\ UNCHANGED <<tsVars, last_size, unchanged_time, current_ver, latest_ver, tz, argv, stmts, doc, chunk_size, run, flow, pc, pos,
                   enumerations, params, db, tx, exc, failed, instrument_id, enums_ids,
                   listed, nocopy, buffer, size, chunks, load, calls, yielded, received,
                   params_committed, history>>

\* one turn of the loop over as_completed(futures)
as_completed_turn ==
    /\ pc = "pool"
    /\ \E i \in 1..Len(futures) :
        /\ futures[i].state = "finished"
        /\ ~futures[i].collected
        /\ LET r == future_result(futures[i].result.error)
           IN  /\ futures' = [futures EXCEPT ![i].collected = TRUE,
                                             ![i].logged = r.logged]
               /\ exc' = IF r.raised THEN "Exception" ELSE exc
               /\ pc' = IF r.raised THEN "raised" ELSE pc
    /\ UNCHANGED <<tsVars, last_size, unchanged_time, current_ver, latest_ver, tz, argv, stmts, doc, chunk_size, run, flow, pos, enumerations,
                   params, db, tx, failed, instrument_id, enums_ids, listed, nocopy,
                   buffer, size, chunks, load, calls, yielded, received, params_committed,
                   history>>

\* the loop has seen every future and the executor is left
run_all_tasks_return ==
    /\ pc = "pool"
    /\ \A i \in 1..Len(futures) : futures[i].collected
    /\ pc' = "returned"
    /\ UNCHANGED <<tsVars, last_size, unchanged_time, futures, current_ver, latest_ver, tz, argv, stmts, doc, chunk_size, run, flow, pos, enumerations,
                   params, db, tx, exc, failed, instrument_id, enums_ids, listed, nocopy,
                   buffer, size, chunks, load, calls, yielded, received, params_committed,
                   history>>

UecNext ==
    \/ submit_all
    \/ worker_takes
    \/ task_runs
    \/ as_completed_turn
    \/ run_all_tasks_return

SpecUec == UecInit /\ [][UecNext]_vars

\* C28: once the server tasks are submitted, run_all_tasks raises nothing
\* whatever the tasks do; it returns only when every task has ended, by its
\* return or by its own failure, and every failure was logged; at no time do
\* more than min(number of servers, 4) tasks run; and a task that imports
\* error notifications has imported its error definitions before.
C28_TasksIndependent ==
    Len(futures) > 0 =>
        /\ pc \in {"pool", "returned"}
        /\ exc = "none"
        /\ Cardinality(Running) <= workers(Len(futures))
        /\ Cardinality(Running) <= 4
        /\ \A i \in 1..Len(futures) :
            LET ops == futures[i].result.ops
            IN  /\ \A k \in 1..Len(ops) : ops[k] = "import_data" =>
                        \E j \in 1..(k - 1) : ops[j] = "import_metadata"
                /\ futures[i].collected => futures[i].state = "finished"
                /\ futures[i].collected => futures[i].logged = futures[i].result.error
        /\ pc = "returned" =>
            \A i \in 1..Len(futures) :
                futures[i].state = "finished" /\ futures[i].collected

\* five servers, one task failed and another imported its notifications, and
\* run_all_tasks returned
C28_Witness ==
    /\ pc = "returned"
    /\ Len(futures) > 4
    /\ \E i, j \in 1..Len(futures) :
        /\ futures[i].result.error
        /\ futures[i].logged
        /\ ~futures[j].result.error
        /\ futures[j].result.ops[Len(futures[j].result.ops)] = "import_data"

\* ---------------------------------------------------------------------------
\* db_manager.py: the migrate command and DatabaseManager.migrate_db
\* ---------------------------------------------------------------------------

MaxVersion == 7

\* range(a, b) of Python
range(a, b) == IF b > a THEN [i \in 1..(b - a) |-> a + i - 1] ELSE <<>>

\* f"{v:03d}.sql", for a version below 1000
migration_file(v) == Pad(v, 3) \o <<".", "s", "q", "l">>

\* a migration that starts at the stored version itself
migrate_db_from_current(current, latest) ==
    IF current < latest
    THEN [executed |-> [i \in 1..Len(range(current, latest + 1)) |->
                            migration_file(range(current, latest + 1)[i])],
          error |-> "none"]
    ELSE IF current = latest
    THEN [executed |-> <<>>, error |-> "none"]
    ELSE [executed |-> <<>>, error |-> "ValueError"]

\* migrate_db: the files it executes, in order, and the error it raises
migrate_db(current, latest) ==
    IF current < latest
    THEN [executed |-> [i \in 1..Len(range(current + 1, latest + 1)) |->
                            migration_file(range(current + 1, latest + 1)[i])],
          error |-> "none"]
    ELSE IF current = latest
    THEN [executed |-> <<>>, error |-> "none"]
    ELSE [executed |-> <<>>, error |-> "ValueError"]

MigrateInit ==
    /\ TsIdle
    /\ tz = "UTC"
    /\ PlState(NoDocument, SmallChunk, "shell")

\* main, action "migrate": the target version is read from the environment
\* and the store, which holds its own schema version, is opened
migrate_command ==
    /\ pc = "shell"
    /\ current_ver' \in 0..MaxVersion
    /\ latest_ver' \in 0..MaxVersion
    /\ stmts' = <<>>
    /\ pc' = "migrate"
    /\ UNCHANGED <<tsVars, last_size, unchanged_time, futures, tz, argv, doc, chunk_size, run, flow, pos, enumerations, params,
                   db, tx, exc, failed, instrument_id, enums_ids, listed, nocopy, buffer,
                   size, chunks, load, calls, yielded, received, params_committed, history>>

\* migrate_db(latest_ver), and the exit of the with block
do_migrate_db ==
    /\ pc = "migrate"
    /\ LET m == migrate_db(current_ver, latest_ver)
       IN  /\ history' = m.executed
           /\ exc' = m.error
           /\ stmts' = <<"run_query">> \o [i \in 1..Len(m.executed) |-> "execute_file"]
                           \o exit_calls(m.error)
           /\ pc' = IF m.error = "none" THEN "migrated" ELSE "raised"
    /\ UNCHANGED <<tsVars, last_size, unchanged_time, futures, current_ver, latest_ver, tz, argv, doc, chunk_size, run, flow, pos, enumerations, params,
                   db, tx, failed, instrument_id, enums_ids, listed, nocopy, buffer, size,
                   chunks, load, calls, yielded, received, params_committed>>

MigrateNext ==
    \/ migrate_command
    \/ do_migrate_db

SpecMigrate == MigrateInit /\ [][MigrateNext]_vars

\* the number a migration file is named by
FileNumber(f) == DigitsVal(SubSeq(f, 1, Len(f) - 4))

\* C29: with stored version c and target L, migrate_db executes the files
\* numbered c+1, ..., L, each once and in increasing order, when c < L;
\* executes none when c = L; and raises, with none executed, when c > L.
C29_MigratesMissingVersions ==
    pc \in {"migrated", "raised"} =>
        /\ current_ver < latest_ver =>
            /\ exc = "none"
            /\ Len(history) = latest_ver - current_ver
            /\ \A i \in 1..Len(history) : FileNumber(history[i]) = current_ver + i
        /\ current_ver = latest_ver => (exc = "none" /\ history = <<>>)
        /\ current_ver > latest_ver => (exc = "ValueError" /\ history = <<>>)
        /\ pc = "raised" <=> current_ver > latest_ver

\* a migration over three versions
C29_Witness ==
    /\ pc = "migrated"
    /\ current_ver = 2
    /\ latest_ver = 5
    /\ Len(history) = 3

\* ---------------------------------------------------------------------------
\* db_manager.py: the clean-inst command and clean_instrument_data
\* ---------------------------------------------------------------------------

\* days of the months of a year that is not a leap year
MonthDays == <<31, 28, 31, 30, 31, 30, 31, 31, 30, 31, 30, 31>>

RECURSIVE DaysBefore(_)
DaysBefore(m) == IF m <= 1 THEN 0 ELSE DaysBefore(m - 1) + MonthDays[m - 1]

\* datetime.strptime(text, "%d-%m-%Y").replace(tzinfo=timezone.utc) for the
\* years 2025 to 2027: whether the text parses, and the instant in minutes
\* since 2025-01-01 00:00 UTC
strptime_dmy(text) ==
    LET f == split(text, "-", 1, <<>>)
        ok == /\ Len(f) = 3
              /\ \A i \in 1..3 : f[i] # <<>> /\ IsDigits(f[i])
              /\ Len(f[1]) <= 2 /\ Len(f[2]) <= 2 /\ Len(f[3]) = 4
              /\ DigitsVal(f[2]) \in 1..12
              /\ DigitsVal(f[1]) \in 1..MonthDays[DigitsVal(f[2])]
              /\ DigitsVal(f[3]) \in 2025..2027
    IN  IF ok
        THEN [ok |-> TRUE,
              time |-> 1440 * (365 * (DigitsVal(f[3]) - 2025)
                               + DaysBefore(DigitsVal(f[2])) + DigitsVal(f[1]) - 1)]
        ELSE [ok |-> FALSE, time |-> 0]

\* DELETE FROM public.data WHERE instrument_id = %s AND time <= %s
delete_data_up_to(table, id, from_date) ==
    LET kept(r) == ~(r.instrument_id = id /\ r.time <= from_date)
    IN  SelectSeq(table, kept)

\* DELETE FROM public.data WHERE instrument_id = %s AND time < %s
delete_data_before(table, id, from_date) ==
    LET kept(r) == ~(r.instrument_id = id /\ r.time < from_date)
    IN  SelectSeq(table, kept)

\* DELETE FROM uec.errors WHERE InstrumentId = %s AND Time < %s
delete_errors_before(table, id, from_date) ==
    LET kept(r) == ~(r.InstrumentId = id /\ r.Time < from_date)
    IN  SelectSeq(table, kept)

\* DELETE FROM public.instruments WHERE id = %s: the rows of the other
\* tables that reference the instrument are deleted with it
delete_instrument(store, id) ==
    LET other(r) == r.instrument_id # id
        otherI(r) == r.id # id
        otherE(r) == r.InstrumentId # id
    IN  [instruments |-> SelectSeq(store.instruments, otherI),
         enum_types  |-> SelectSeq(store.enum_types, other),
         enum_values |-> SelectSeq(store.enum_values, other),
         parameters  |-> SelectSeq(store.parameters, other),
         data        |-> SelectSeq(store.data, other),
         errors      |-> SelectSeq(store.errors, otherE)]

\* clean_instrument_data(instrument_serial, since): the error it raises, the
\* tables it leaves in the transaction and the calls it makes on the
\* connection; since = <<>> stands for None
clean_instrument_data(store, instrument_serial, since) ==
    LET found == {i \in 1..Len(store.instruments) :
                    store.instruments[i].serial = instrument_serial}
    IN  IF found = {}
        THEN [error |-> "ValueError", store |-> store, calls |-> <<"run_query">>]
        ELSE LET id == store.instruments[CHOOSE i \in found : TRUE].id
             IN  IF since = <<>>
                 THEN [error |-> "none", store |-> delete_instrument(store, id),
                       calls |-> <<"run_query", "run_query", "commit">>]
                 ELSE LET d == strptime_dmy(since)
                      IN  IF ~d.ok
                          THEN [error |-> "ValueError", store |-> store,
                                calls |-> <<"run_query">>]
                          ELSE [error |-> "none",
                                store |-> [store EXCEPT
                                    !.data = delete_data_before(store.data, id, d.time),
                                    !.errors = delete_errors_before(store.errors, id, d.time)],
                                calls |-> <<"run_query", "run_query", "run_query", "commit">>]

\* the stored rows the command is tried on: two instruments, rows of both
\* on either side of the dates below, one exactly at midnight
CleanInstruments ==
    << [id |-> 1, serial |-> Microscope.serial], [id |-> 2, serial |-> 3593] >>

DataRowPool ==
    << [time |-> 1439, instrument_id |-> 1, param_id |-> 1],
       [time |-> 1440, instrument_id |-> 1, param_id |-> 1],
       [time |-> 44639, instrument_id |-> 1, param_id |-> 1],
       [time |-> 1439, instrument_id |-> 2, param_id |-> 1],
       [time |-> 44640, instrument_id |-> 2, param_id |-> 1] >>

ErrorRowPool ==
    << [Time |-> 1439, InstrumentId |-> 1, ErrorId |-> 7],
       [Time |-> 1440, InstrumentId |-> 1, ErrorId |-> 7],
       [Time |-> 1439, InstrumentId |-> 2, ErrorId |-> 7] >>

\* the rows of a pool picked by a set of positions, in the pool's order
Picked(pool, at) ==
    LET in(r) == \E i \in at : pool[i] = r
    IN  SelectSeq(pool, in)

CleanStores ==
    { [instruments |-> CleanInstruments,
       enum_types  |-> <<[instrument_id |-> 1, id |-> 1, name |-> "FegState_enum"]>>,
       enum_values |-> <<[instrument_id |-> 1, enum_id |-> 1, member_name |-> "Operate",
                          value |-> 4]>>,
       parameters  |-> <<[instrument_id |-> 1, param_id |-> 1],
                         [instrument_id |-> 2, param_id |-> 1]>>,
       data        |-> Picked(DataRowPool, d),
       errors      |-> Picked(ErrorRowPool, e)] :
        d \in SUBSET (1..Len(DataRowPool)), e \in SUBSET (1..Len(ErrorRowPool)) }

CleanSerials == {Microscope.serial, 3593, 1111, 0}

CleanDates ==
    { <<>>,
      <<"0", "2", "-", "0", "1", "-", "2", "0", "2", "5">>,
      <<"1", "-", "2", "-", "2", "0", "2", "5">>,
      <<"2", "0", "2", "5", "-", "0", "1", "-", "0", "2">> }

CleanInit ==
    /\ TsIdle
    /\ tz = "UTC"
    /\ \E s \in CleanStores : PlStateOn(NoDocument, SmallChunk, "shell", s)

\* the command line: db_manager clean-inst -i SERIAL [--date DD-MM-YYYY]
clean_command ==
    /\ pc = "shell"
    /\ \E s \in CleanSerials, d \in CleanDates :
        argv' = [instrument |-> s, date |-> d]
    /\ pc' = "clean-inst"
    /\ UNCHANGED <<tsVars, last_size, unchanged_time, futures, current_ver, latest_ver, tz, stmts, doc, chunk_size, run, flow, pos, enumerations,
                   params, db, tx, exc, failed, instrument_id, enums_ids, listed, nocopy,
                   buffer, size, chunks, load, calls, yielded, received, params_committed,
                   history>>

\* main, action "clean-inst": the arguments are verified, then
\* clean_instrument_data runs in the with block, which commits on a return
\* and rolls back on an error
do_clean_inst ==
    /\ pc = "clean-inst"
    /\ history' = <<db>>
    /\ IF argv.instrument = 0 \/ (argv.date # <<>> /\ ~strptime_dmy(argv.date).ok)
       THEN /\ exc' = "ValueError"
            /\ pc' = "raised"
            /\ UNCHANGED <<db, tx, stmts>>
       ELSE LET c == clean_instrument_data(tx, argv.instrument, argv.date)
                t == exit_tables(c.error, db, c.store)
            IN  /\ exc' = c.error
                /\ db' = t
                /\ tx' = t
                /\ stmts' = c.calls \o exit_calls(c.error)
                /\ pc' = IF c.error = "none" THEN "cleaned" ELSE "raised"
    /\ UNCHANGED <<tsVars, last_size, unchanged_time, futures, current_ver, latest_ver, tz, argv, doc, chunk_size, run, flow, pos, enumerations, params,
                   failed, instrument_id, enums_ids, listed, nocopy, buffer, size, chunks,
                   load, calls, yielded, received, params_committed>>

CleanNext ==
    \/ clean_command
    \/ do_clean_inst

SpecClean == CleanInit /\ [][CleanNext]_vars

\* the position of the stored instrument with the serial of the command, 0 if none
CleanedAt ==
    IF \E i \in 1..Len(history[1].instruments) :
            history[1].instruments[i].serial = argv.instrument
    THEN CHOOSE i \in 1..Len(history[1].instruments) :
            history[1].instruments[i].serial = argv.instrument
    ELSE 0

\* C30: for a serial number that is not stored the command raises and the
\* store is as before; with a date, the rows of data and of errors that are
\* left are exactly the rows held before other than those of that instrument
\* with a time strictly before the date, in the same order, and the
\* instruments, parameters and enumerations are as before.
C30_CleanBeforeDateOnly ==
    pc \in {"cleaned", "raised"} =>
        LET before == history[1]
        IN  /\ CleanedAt = 0 => (pc = "raised" /\ exc = "ValueError" /\ db = before)
            /\ (CleanedAt # 0 /\ argv.date # <<>> /\ strptime_dmy(argv.date).ok) =>
                LET id == before.instruments[CleanedAt].id
                    from_date == strptime_dmy(argv.date).time
                    keptD(r) == r.instrument_id # id \/ r.time >= from_date
                    keptE(r) == r.InstrumentId # id \/ r.Time >= from_date
                IN  /\ pc = "cleaned"
                    /\ db.data = SelectSeq(before.data, keptD)
                    /\ db.errors = SelectSeq(before.errors, keptE)
                    /\ db.instruments = before.instruments
                    /\ db.parameters = before.parameters
                    /\ db.enum_types = before.enum_types
                    /\ db.enum_values = before.enum_values

\* the first instrument cleaned before 02-01-2025 with every row of the pools
\* stored: its rows of 01-01-2025 23:59 are gone, its row of midnight and the
\* other instrument's row of 01-01-2025 23:59 are kept
C30_Witness ==
    /\ pc = "cleaned"
    /\ argv.instrument = Microscope.serial
    /\ argv.date = <<"0", "2", "-", "0", "1", "-", "2", "0", "2", "5">>
    /\ history[1].data = DataRowPool
    /\ history[1].errors = ErrorRowPool
    /\ db.data = SubSeq(DataRowPool, 2, 5)
    /\ db.errors = SubSeq(ErrorRowPool, 2, 3)

=============================================================================
